---- MODULE Spec2Model ----
(***************************************************************************)
(* Model of the local player-data cache of the sleeper dashboard:          *)
(*   src/src/playerFunctions.ts  fetchPlayers, storePlayer, storePlayers,  *)
(*                               fetchAndStorePlayers                      *)
(*   src/src/LeagueContext.tsx   shouldRefreshPlayers, getPlayersFromDB,   *)
(*                               fetchAndStorePlayers, refreshData         *)
(* The persistent store is IndexedDB: a write transaction buffers its puts *)
(* and makes them visible at commit, or drops them all when it aborts.     *)
(* One operation is in flight at a time (single event loop, one tab); each *)
(* action is one stretch of code between two awaits.  SpecTabs has two     *)
(* tabs that run the ingestion on the same database.                       *)
(***************************************************************************)
EXTENDS Integers, Sequences, FiniteSets, TLC

\* ------------------------------------------------------------------ bounds
\* player ids are "1" .. "MaxId" (integer-like keys, so Object.keys lists
\* them in ascending order); NoId stands for the empty string
MaxId == 2
\* BATCH_SIZE is 500 in the source; it is scaled down so that a catalog of
\* MaxId players is cut into more than one batch
BATCH_SIZE == 1
\* the longest players array of a response body
MaxEntries == 2
\* the longest height string handed to storePlayer
MaxHeightLen == 4
\* the most rosters of a league
MaxRosters == 3
MaxNameLen == 6
\* the refreshData runs in flight at once
MaxRuns == 2

\* --------------------------------------------------------------- constants
PLAYER_CACHE_HOURS == 24
MsPerHour == 3600000
PLAYER_DATA_VERSION == "1.0"
RELEVANT_POSITIONS == {"QB", "RB", "WR", "TE", "K"}
ErrorMessage == "Failed to load league data. Please try again later."
Null == "null"

Ids == 1..MaxId
NoId == 0
\* the running version and the version of the release that preceded it
Versions == {"0.9", PLAYER_DATA_VERSION}
EmptyMap == [k \in {} |-> 0]

\* a string is a sequence of one-character strings; Undefined is the value
\* of a field that is not set
Undefined == <<"undefined">>
H62 == <<"6", "'", "2", "\"">>
H74 == <<"7", "4">>

ThresholdMs == PLAYER_CACHE_HOURS * MsPerHour
\* the readings of Date.now() the model distinguishes
Instants == {0, ThresholdMs - 1, ThresholdMs}

\* ------------------------------------------------------------------ inputs
Player(id, st, pos, h) == [player_id |-> id, status |-> st, position |-> pos, height |-> h]

\* a catalog is a mapping id -> Player, as fetchPlayers returns it; here
\* id -> the shape of the player
Catalogs ==
  UNION { [S -> { <<"Active", "QB", H74>>,
                  <<"Inactive", "WR", H62>>,
                  <<"Active", "DEF", Undefined>> }] : S \in SUBSET Ids }

CatalogOf(f) == [id \in DOMAIN f |-> Player(id, f[id][1], f[id][2], f[id][3])]

\* the catalogs that the catalog request of refreshData answers with
FetchedCatalogs ==
  UNION { [S -> { <<"Active", "QB", H74>>, <<"Inactive", "WR", H62>> }] :
            S \in SUBSET Ids }

\* the height strings of at most MaxHeightLen characters, the empty string
\* among them
HeightStrings ==
  UNION { [1..n -> {"6", "'", "\""}] : n \in 0..MaxHeightLen }

\* the players handed to storePlayer directly: every combination of
\* identifier, status and position, and an eligible player with every height
TestPlayers ==
  { Player(id, st, pos, h) :
      id \in {NoId, 1}, st \in {"Active", "Inactive"},
      pos \in {"QB", "K", "DEF", ""}, h \in {H62, H74} }
    \cup { Player(1, "Active", "QB", h) : h \in HeightStrings \cup {Undefined} }

\* ---------------------------------------------------- the catalog request
\* a Response of fetch(API_URLS.KTC_RANKINGS_SUPERFLEX): ok, status and
\* statusText; the status is written as the text that the template literal
\* of the error message makes of it
Response(isOk, status, statusText) ==
  [ ok |-> isOk, status |-> status, statusText |-> statusText,
    parsed |-> FALSE, body |-> [isNull |-> TRUE, players |-> [type |-> "undefined", items |-> <<>>]] ]

Responses ==
  { Response(TRUE, "200", "OK"),
    Response(FALSE, "500", "Internal Server Error"),
    Response(FALSE, "404", "Not Found") }

NoResponse == Response(FALSE, "", "")

\* error messages; an error is the sequence of the pieces of its message
NoError == <<>>
SyntaxError == <<"SyntaxError: Unexpected token">>
TypeError == <<"TypeError: Cannot read properties of null">>
FormatError == <<"Invalid player data format from backend">>

\* what a direct call returned: nothing yet, or a mapping
NoResult == [returned |-> FALSE, value |-> EmptyMap]
Returned(v) == [returned |-> TRUE, value |-> v]

\* a display name, and the same name under the field of the earlier backend
NameAB == <<"A", " ", "B">>

\* an entry of the players array of the response body; a field that the
\* entry does not carry is NoId (identifiers), Undefined (name, height) or ""
RawEntry(id, name, legacyId, legacyName, st, pos, h) ==
  [ isNull |-> FALSE, sleeper_player_id |-> id, playerName |-> name,
    sleeper_id |-> legacyId, Player_Name |-> legacyName,
    status |-> st, position |-> pos, height |-> h ]

RawEntries ==
  { RawEntry(id, NameAB, NoId, Undefined, "", "QB", H74) : id \in Ids }
    \cup { RawEntry(1, NameAB, NoId, Undefined, "Inactive", "WR", H62),
           RawEntry(1, Undefined, NoId, Undefined, "", "QB", H62),
           RawEntry(1, <<>>, NoId, Undefined, "", "K", Undefined),
           RawEntry(NoId, Undefined, 1, NameAB, "", "QB", H62),
           RawEntry(NoId, NameAB, NoId, Undefined, "", "QB", H62),
           \* the JSON value null as an element of the array
           [ isNull |-> TRUE, sleeper_player_id |-> NoId, playerName |-> Undefined,
             sleeper_id |-> NoId, Player_Name |-> Undefined,
             status |-> "", position |-> "", height |-> Undefined ] }

\* the `players` field of the parsed body: not there, null, a string, an
\* object that is no array, or an array
Field(type, items) == [type |-> type, items |-> items]

\* the value that response.json() resolves with: null, or an object
Body(isNull, field) == [isNull |-> isNull, players |-> field]

\* the bodies: the arrays are those of at most MaxEntries raw entries
Bodies ==
  { Body(TRUE, Field("undefined", <<>>)) }
    \cup { Body(FALSE, Field(type, <<>>)) :
             type \in {"undefined", "null", "string", "object"} }
    \cup { Body(FALSE, Field("array", a)) :
             a \in UNION { [1..n -> RawEntries] : n \in 0..MaxEntries } }

\* the names of at most MaxNameLen characters, and the bodies with one
\* entry of such a name
NameBodies ==
  { Body(FALSE, Field("array", << RawEntry(1, n, NoId, Undefined, "", "QB", H74) >>)) :
      n \in UNION { [1..m -> {"A", "B", " "}] : m \in 0..MaxNameLen } }

\* ------------------------------------------------------------------- tabs
Tabs == {"A", "B"}
\* pc, data, i and txw are the position and the locals of the run of the
\* tab; committed: its transaction has committed; waited: its transaction
\* was created while the one of the other tab was live

VARIABLES
  players,      \* store: the players collection, player_id -> record
  metadata,     \* store: the metadata collection, key -> record
  shapeVer,     \* for each stored player, the version of the code that wrote it
  now,          \* Date.now()
  codeVersion,  \* PLAYER_DATA_VERSION of the code that is running
  loading,      \* React state
  error,        \* React state
  statePlayers, \* React state `players`
  op,           \* the operation in flight: idle, refreshData, storePlayers,
                \* storePlayer, fetchPlayers, fetchAndStorePlayers
  pc,           \* where it stands
  needsRefresh, \* refreshData: result of shouldRefreshPlayers
  playersData,  \* storePlayers: its argument
  player,       \* storePlayer: its argument (direct call)
  i,            \* storePlayers: loop index
  txw,          \* the puts buffered by the open players transaction
  putLog,       \* the puts issued on the players transaction, in order
  playersMap,   \* refreshData: result of getPlayersFromDB
  trace,        \* refreshData: the requests and store accesses of this run
  failedAt,     \* the step of the operation in flight that failed, or "none"
  readFailed,   \* shouldRefreshPlayers: the metadata read failed
  startPlayers, \* the players collection when storePlayers was entered
  startMeta,    \* the metadata collection when storePlayers was entered
  calls,        \* storePlayers direct call: 1, or 2 when repeated with the same input
  metaLost,     \* "no", or whether the metadata was "stale" or "fresh" when the
                \* last storePlayers lost its metadata write
  checkAfter,   \* refreshData: metaLost as the freshness check of this run found it
  startedFresh, \* refreshData: the metadata was fresh and of the running version
                \* when the run started
  checkedFresh, \* refreshData: the freshness check read the metadata, and it was
                \* fresh and of the running version
  requests,     \* fetchPlayers: the network requests issued by the call in flight
  response,     \* fetchPlayers: the Response that fetch resolved with, and
                \* the body that was read from it
  fetched,      \* fetchAndStorePlayers: its local playersData
  fetchError,   \* the error that the failed stage rejected with
  result,       \* what the direct call in flight returned
  thrown,       \* the error that the direct call in flight rejected with
  tabs,         \* two tabs: for each tab, where its ingestion stands
  runs,         \* overlapping runs: the refreshData runs in flight, in the
                \* order in which they started
  txQueue,      \* two tabs: the tabs whose players transaction is live, in
                \* the order in which the transactions were created
  rosters,      \* React state
  users,        \* React state
  playerOwnership, \* React state
  teams,        \* teamsData, the memo of rosters, users and players
  ownership,    \* store: the ownership collection, key -> record
  ownershipMap, \* refreshData: the ownership mapping it has loaded
  selectedLeagueId, \* React state
  ownError      \* refreshData: the step of the ownership read or fetch that
                \* failed last, or "none"

vars == << players, metadata, shapeVer, now, codeVersion, loading, error,
           statePlayers, op, pc, needsRefresh, playersData, player, i, txw,
           putLog, playersMap, trace, failedAt, readFailed, startPlayers,
           startMeta, calls, metaLost, checkAfter, startedFresh, checkedFresh,
           requests, response, fetched, fetchError, result, thrown, tabs,
           txQueue, rosters, users, playerOwnership, teams, ownership,
           ownershipMap, selectedLeagueId, ownError, runs >>

storeVars == << players, metadata, shapeVer >>
uiVars == << loading, error, statePlayers >>
ghostVars == << startPlayers, startMeta, calls, metaLost, checkAfter >>
runGhost == << startedFresh, checkedFresh >>
fetchVars == << requests, response, fetched, fetchError, result, thrown >>
tabVars == << tabs, txQueue, runs >>
leagueVars == << rosters, users, playerOwnership, teams >>
ownVars == << ownership, ownershipMap, selectedLeagueId, ownError >>

\* ----------------------------------------------------------------- helpers
Truthy(id) == id # NoId
TruthyStr(s) == s # Undefined /\ s # <<>>

\* the index that follows the run of digits of s that starts at index k
RECURSIVE DigitRun(_, _)
DigitRun(s, k) ==
  IF k <= Len(s) /\ s[k] \in {"0", "1", "2", "3", "4", "5", "6", "7", "8", "9"}
  THEN DigitRun(s, k + 1) ELSE k

\* /^\d+'\d+"$/.test(height)
isValidHeight(height) ==
  LET a == DigitRun(height, 1) IN
  /\ a > 1
  /\ a <= Len(height)
  /\ height[a] = "'"
  /\ LET b == DigitRun(height, a + 1) IN
     /\ b > a + 1
     /\ b = Len(height)
     /\ height[b] = "\""

\* storePlayer(tx, player): the puts it issues on tx, in order
storePlayer_noStatusCheck(p) ==
  IF ~Truthy(p.player_id) THEN <<>>
  ELSE LET q == IF TruthyStr(p.height) /\ ~isValidHeight(p.height)
                THEN [p EXCEPT !.height = Undefined] ELSE p
       IN IF q.position # "" /\ q.position \in RELEVANT_POSITIONS
          THEN <<q>> ELSE <<>>

storePlayer_noIdCheck(p) ==
  LET q == IF TruthyStr(p.height) /\ ~isValidHeight(p.height)
           THEN [p EXCEPT !.height = Undefined] ELSE p
  IN IF q.status = "Active" /\ q.position # "" /\ q.position \in RELEVANT_POSITIONS
     THEN <<q>> ELSE <<>>

storePlayer_noPositionCheck(p) ==
  IF ~Truthy(p.player_id) THEN <<>>
  ELSE LET q == IF TruthyStr(p.height) /\ ~isValidHeight(p.height)
                THEN [p EXCEPT !.height = Undefined] ELSE p
       IN IF q.status = "Active" THEN <<q>> ELSE <<>>

storePlayer(p) ==
  IF ~Truthy(p.player_id) THEN <<>>
  ELSE LET q == IF TruthyStr(p.height) /\ ~isValidHeight(p.height)
                THEN [p EXCEPT !.height = Undefined] ELSE p
       IN IF q.status = "Active" /\ q.position # "" /\ q.position \in RELEVANT_POSITIONS
          THEN <<q>> ELSE <<>>

\* Object.keys(playersData): integer-like keys in ascending order
RECURSIVE SortedSeq(_)
SortedSeq(S) ==
  IF S = {} THEN <<>>
  ELSE LET m == CHOOSE x \in S : \A y \in S : x <= y
       IN <<m>> \o SortedSeq(S \ {m})

ObjectKeys(data) == SortedSeq(DOMAIN data)

Slice_fromStart(ids, k) ==
  LET hi == IF k + BATCH_SIZE < Len(ids) THEN k + BATCH_SIZE ELSE Len(ids)
  IN [j \in 1..hi |-> ids[j]]

\* playerIds.slice(k, k + BATCH_SIZE), k counted from 0
Slice(ids, k) ==
  LET hi == IF k + BATCH_SIZE < Len(ids) THEN k + BATCH_SIZE ELSE Len(ids)
  IN [j \in 1..(hi - k) |-> ids[k + j]]

\* batch.map(id => storePlayer(tx, {...playersData[id], player_id: id})):
\* the puts of one batch, in the order in which they are issued
RECURSIVE batchPuts(_, _)
batchPuts(data, batch) ==
  IF batch = <<>> THEN <<>>
  ELSE storePlayer([data[Head(batch)] EXCEPT !.player_id = Head(batch)])
         \o batchPuts(data, Tail(batch))

\* const player = { ...playersData[id] }: a new object with the fields of
\* the record listed under id. A heap maps the address of an object to its
\* fields: <<"data", id>> is the record of the mapping, <<"copy", id>> the
\* new object; the result is the heap and the address that `player` holds
spread_alias(heap, id) == [heap |-> heap, ref |-> <<"data", id>>]

spread(heap, id) ==
  [heap |-> [a \in DOMAIN heap \cup {<<"copy", id>>} |->
               IF a = <<"copy", id>> THEN heap[<<"data", id>>] ELSE heap[a]],
   ref |-> <<"copy", id>>]

\* the heap after batch.map(id => { player = {...playersData[id]};
\* player.player_id = id; return storePlayer(tx, player) }); storePlayer
\* clears the height of the object it is given when that object has a
\* player_id and a height that is not valid
RECURSIVE heapAfterBatch(_, _)
heapAfterBatch(heap, batch) ==
  IF batch = <<>> THEN heap
  ELSE LET id == Head(batch)
           s == spread(heap, id)
           named == [s.heap EXCEPT ![s.ref].player_id = id]
           p == named[s.ref]
       IN heapAfterBatch(
            IF Truthy(p.player_id) /\ TruthyStr(p.height) /\ ~isValidHeight(p.height)
            THEN [named EXCEPT ![s.ref].height = Undefined]
            ELSE named,
            Tail(batch))

\* the mapping that storePlayers was given, as one batch leaves it
dataAfterBatch(data, batch) ==
  LET heap == heapAfterBatch([a \in {<<"data", id>> : id \in DOMAIN data} |-> data[a[2]]],
                             batch)
  IN [id \in DOMAIN data |-> heap[<<"data", id>>]]

\* tx.store.put(record) on the players collection (keyPath player_id)
put(w, rec) ==
  [k \in DOMAIN w \cup {rec.player_id} |-> IF k = rec.player_id THEN rec ELSE w[k]]

putAll_reset(w, puts) ==
  [k \in {puts[j].player_id : j \in 1..Len(puts)} |->
     puts[CHOOSE j \in 1..Len(puts) : puts[j].player_id = k]]

RECURSIVE putAll(_, _)
putAll(w, puts) == IF puts = <<>> THEN w ELSE putAll(put(w, Head(puts)), Tail(puts))

Override(f, g) == [k \in DOMAIN f \cup DOMAIN g |-> IF k \in DOMAIN g THEN g[k] ELSE f[k]]

\* the players collection once the transaction with buffered puts w has
\* committed on database db
playersAfterCommit_clearStale(db, w) ==
  IF DOMAIN db.metadata # {} THEN w ELSE Override(db.players, w)

\* the commit that leaves the collection as it was
playersAfterCommit_none(db, w) == db.players

playersAfterCommit_replaceAll(db, w) == w

playersAfterCommit(db, w) == Override(db.players, w)

\* the players collection once the transaction with buffered puts w has aborted
playersAfterAbort_autoCommit(db, w) == Override(db.players, w)

playersAfterAbort(db, w) == db.players

\* db.put('metadata', {lastUpdated: Date.now(), key: 'lastUpdate', version})
metadataAfterPut_skipEmpty(m, data, t, v) ==
  IF DOMAIN data = {} THEN m
  ELSE [k \in {"lastUpdate"} |-> [key |-> "lastUpdate", lastUpdated |-> t, version |-> v]]

metadataAfterPut(m, data, t, v) ==
  [k \in {"lastUpdate"} |-> [key |-> "lastUpdate", lastUpdated |-> t, version |-> v]]

\* shouldRefreshPlayers(db); readOk is false when db.get rejects.
\* hoursElapsed = (now - lastUpdated) / MsPerHour is a real number, and
\* hoursElapsed >= PLAYER_CACHE_HOURS is compared without dividing
shouldRefreshPlayers_strict(m, readOk, t, v) ==
  IF ~readOk THEN TRUE
  ELSE IF "lastUpdate" \notin DOMAIN m THEN TRUE
  ELSE (t - m["lastUpdate"].lastUpdated) > PLAYER_CACHE_HOURS * MsPerHour
         \/ m["lastUpdate"].version # v

shouldRefreshPlayers_failClosed(m, readOk, t, v) ==
  IF ~readOk THEN FALSE
  ELSE IF "lastUpdate" \notin DOMAIN m THEN TRUE
  ELSE (t - m["lastUpdate"].lastUpdated) >= PLAYER_CACHE_HOURS * MsPerHour
         \/ m["lastUpdate"].version # v

shouldRefreshPlayers_both(m, readOk, t, v) ==
  IF ~readOk THEN TRUE
  ELSE IF "lastUpdate" \notin DOMAIN m THEN TRUE
  ELSE (t - m["lastUpdate"].lastUpdated) >= PLAYER_CACHE_HOURS * MsPerHour
         /\ m["lastUpdate"].version # v

shouldRefreshPlayers(m, readOk, t, v) ==
  IF ~readOk THEN TRUE
  ELSE IF "lastUpdate" \notin DOMAIN m THEN TRUE
  ELSE (t - m["lastUpdate"].lastUpdated) >= PLAYER_CACHE_HOURS * MsPerHour
         \/ m["lastUpdate"].version # v

\* refreshData: if (needsRefresh) fetchAndStorePlayers, then getPlayersFromDB
afterCheck_always(needs) == "fetch"

afterCheck(needs) == IF needs THEN "fetch" ELSE "read"

\* getPlayersFromDB(db): readOk is false when db.getAll rejects; an empty
\* collection throws inside the try and the catch returns {}
getPlayersFromDB(store, readOk) ==
  IF ~readOk THEN EmptyMap
  ELSE IF DOMAIN store = {} THEN EmptyMap
  ELSE LET kept == {k \in DOMAIN store : Truthy(store[k].player_id)}
       IN [id \in {store[k].player_id : k \in kept} |->
             store[CHOOSE k \in kept : store[k].player_id = id]]

\* ---------------------------------------------------------- fetchPlayers
\* the outcome of an awaited call: resolved with a value, or rejected
Ok(v) == [ok |-> TRUE, value |-> v, error |-> NoError]
Fail(e) == [ok |-> FALSE, value |-> EmptyMap, error |-> e]

\* `Failed to fetch players: ${response.status} ${response.statusText}`
statusError_noReason(status, statusText) == <<"Failed to fetch players: ", status>>

statusError(status, statusText) == <<"Failed to fetch players: ", status, " ", statusText>>

\* if (!response.ok) throw new Error(...)
checkResponse(r) ==
  IF ~r.ok THEN Fail(statusError(r.status, r.statusText)) ELSE Ok(EmptyMap)

FieldTruthy(f) == f.type \notin {"undefined", "null"}
IsArray(f) == f.type = "array"

\* !apiResponse?.players || !Array.isArray(apiResponse.players)
invalidFormat_noArrayCheck(body) ==
  body.isNull \/ ~FieldTruthy(body.players)

invalidFormat(body) ==
  (body.isNull \/ ~FieldTruthy(body.players)) \/ ~IsArray(body.players)

\* name.split(' '): the pieces between the spaces, empty ones included
RECURSIVE split(_)
split(name) ==
  IF \A k \in 1..Len(name) : name[k] # " " THEN << name >>
  ELSE LET k == CHOOSE j \in 1..Len(name) :
                  name[j] = " " /\ \A m \in 1..(j - 1) : name[m] # " "
       IN << SubSeq(name, 1, k - 1) >> \o split(SubSeq(name, k + 1, Len(name)))

\* pieces.join(' ')
RECURSIVE join(_)
join(pieces) ==
  IF Len(pieces) = 0 THEN <<>>
  ELSE IF Len(pieces) = 1 THEN pieces[1]
  ELSE pieces[1] \o << " " >> \o join(Tail(pieces))

\* playerName?.split(' ')[0] || ''
firstName(name) == split(name)[1]

lastName_all(name) == join(split(name))

\* playerName?.split(' ').slice(1).join(' ') || ''
lastName(name) == join(Tail(split(name)))

normalize_keepStatus(e) ==
  [ player_id |-> e.sleeper_player_id,
    status |-> e.status,
    position |-> IF e.position # "" THEN e.position ELSE "",
    height |-> e.height,
    playerName |-> e.playerName,
    first_name |-> firstName(e.playerName),
    last_name |-> lastName(e.playerName) ]

\* the record that fetchPlayers makes of a raw entry (the fields of Player)
normalize(e) ==
  [ player_id |-> e.sleeper_player_id,
    status |-> IF e.status # "" THEN e.status ELSE "Active",
    position |-> IF e.position # "" THEN e.position ELSE "",
    height |-> e.height,
    playerName |-> e.playerName,
    first_name |-> firstName(e.playerName),
    last_name |-> lastName(e.playerName) ]

\* playersRecord[player.sleeper_player_id] = {...}
setKey(rec, id, v) == [k \in DOMAIN rec \cup {id} |-> IF k = id THEN v ELSE rec[k]]

\* playersArray.forEach(...): an entry with an identifier and a name is
\* added, another one is passed over.  Reading a field of a null entry
\* throws inside the try; the catch reads player.sleeper_player_id for its
\* message and throws again, out of forEach
RECURSIVE forEachEntry(_, _)
forEachEntry(items, playersRecord) ==
  IF items = <<>> THEN Ok(playersRecord)
  ELSE LET e == Head(items) IN
       IF e.isNull THEN Fail(TypeError)
       ELSE IF Truthy(e.sleeper_player_id) /\ TruthyStr(e.playerName)
            THEN forEachEntry(Tail(items),
                              setKey(playersRecord, e.sleeper_player_id, normalize(e)))
            ELSE forEachEntry(Tail(items), playersRecord)

\* fetchPlayers from `const apiResponse = await response.json()` on
parseBody(body) ==
  IF invalidFormat(body) THEN Fail(FormatError)
  ELSE IF ~IsArray(body.players) THEN Fail(<<"TypeError: playersArray.forEach is not a function">>)
  ELSE forEachEntry(body.players.items, EmptyMap)

\* fetchAndStorePlayers: what follows `await fetchPlayers()`, the store
\* stage or the catch
fetchStageNext_ignoreFailure(outcome) == "tx"

fetchStageNext(outcome) == IF outcome.ok THEN "tx" ELSE "catch"

\* fetchAndStorePlayers: catch (err) { console.error(...); throw err }
rethrow_wrapped(err) == <<"Error in fetchAndStorePlayers">>

rethrow(err) == err

\* the error that storePlayers rejects with when its step `step` fails
StoreError(step) == <<"storePlayers", step>>

\* refreshData: catch (err) { setError('Failed to load league data. ...') }
catchError_raw(err) == err

catchError(err) == ErrorMessage

\* whether a metadata collection calls for a refresh at time t under version v
Stale(m, t, v) ==
  \/ DOMAIN m = {}
  \/ m["lastUpdate"].version # v
  \/ t - m["lastUpdate"].lastUpdated >= ThresholdMs

\* -------------------------------------------------------------- teamsData
\* a roster setting that is not there
Missing == -1

Roster(id, owner, starters, plist, wins, fpts, dec) ==
  [ roster_id |-> id, owner_id |-> owner, starters |-> starters,
    players |-> plist,
    settings |-> [wins |-> wins, fpts |-> fpts, fpts_decimal |-> dec] ]

User(id, name) == [user_id |-> id, username |-> name, display_name |-> name]

\* the cached players of a set of ids, as getPlayersFromDB lists them
CachedOf(S) == [id \in S |-> Player(id, "Active", "QB", H62)]

\* the id lists of a roster, no id twice: the ids are those of cached
\* players and one more that no cached player has
IdLists ==
  UNION { { q \in [1..n -> 1..(MaxId + 1)] :
              \A a, b \in 1..n : q[a] = q[b] => a = b } : n \in 0..MaxId }

\* what the states rosters, users and players are set to: up to
\* maxRosters rosters that differ in their settings (wins, fpts,
\* fpts_decimal), listed with roster_id 1, 2, ...; or a roster with every
\* owner and every pair of id lists, followed by another roster
LeagueInputs(maxRosters) ==
  LET settings == {Missing, 0, 1} \X { <<Missing, Missing>>, <<Missing, 50>>, <<1, 50>> }
      standing ==
        UNION { { [k \in 1..n |->
                     Roster(k, "u1", <<1>>, <<1>>, f[k][1], f[k][2][1], f[k][2][2])] :
                   f \in [1..n -> settings] } : n \in 0..maxRosters }
      lineup ==
        { << Roster(1, owner, st, pl, 1, 1, 50),
             Roster(2, "u1", <<1>>, <<1, 2>>, 0, Missing, Missing) >> :
            owner \in {"u1", "u2", "u9"}, st \in IdLists, pl \in IdLists }
  IN { [rosters |-> rs, users |-> us, players |-> CachedOf(Ids)] :
         rs \in standing, us \in {<<>>, <<User("u1", "Ann")>>} }
       \cup { [rosters |-> rs, users |-> <<User("u1", "Ann"), User("u2", "Bob")>>,
               players |-> ps] :
              rs \in lineup, ps \in {CachedOf(Ids), CachedOf({1}), EmptyMap} }

\* --------------------------------------------------------------- ownership
\* the leagues of the configuration
LEAGUES ==
  << [id |-> "1210364682523656192", season |-> 2025],
     [id |-> "1050831680350568448", season |-> 2024] >>

\* LEAGUES.find((league) => league.id === selectedLeagueId)?.season || 2025
currentSeason(leagueId) ==
  IF \E k \in DOMAIN LEAGUES : LEAGUES[k].id = leagueId
  THEN LEAGUES[CHOOSE k \in DOMAIN LEAGUES :
                 /\ LEAGUES[k].id = leagueId
                 /\ \A j \in 1..(k - 1) : LEAGUES[j].id # leagueId].season
  ELSE 2025

\* the decimal text of a number, as a template literal writes it
RECURSIVE ToText(_)
ToText(n) ==
  LET digits == << "0", "1", "2", "3", "4", "5", "6", "7", "8", "9" >>
  IN IF n < 10 THEN << digits[n + 1] >>
     ELSE ToText(n \div 10) \o << digits[(n % 10) + 1] >>

\* a value of research_data: the shares of a player (isNull: the value
\* is null)
Stats(isNull, owned, started) == [isNull |-> isNull, owned |-> owned, started |-> started]

\* what the research request comes to: it fails, answers with an error
\* status or with another shape, or answers with research_data, a
\* mapping of player ids to shares or null; the first player has one of
\* two shares
OwnershipAnswers ==
  { [kind |-> k, data |-> EmptyMap] : k \in {"network", "status", "format"} }
    \cup { [kind |-> "data", data |-> d] :
             d \in { d \in UNION { [S -> { Stats(FALSE, 10, 5), Stats(FALSE, 20, 10),
                                           Stats(TRUE, 0, 0) }] :
                                     S \in SUBSET {ToText(id) : id \in Ids} } :
                       \A t \in DOMAIN d : d[t] = Stats(FALSE, 20, 10) => t = ToText(1) } }

ownershipKey_noSeason(season, id) == id

\* `${season}_${id}`
ownershipKey(season, id) == ToText(season) \o << "_" >> \o id

\* key.startsWith(prefix)
startsWith(text, prefix) ==
  Len(text) >= Len(prefix) /\ SubSeq(text, 1, Len(prefix)) = prefix

\* key.replace(prefix, '') of a key that starts with prefix
removePrefix(text, prefix) == SubSeq(text, Len(prefix) + 1, Len(text))

\* the puts that the batches issue: reading the shares of a null value
\* throws, and no put follows
RECURSIVE ownershipPuts(_, _, _)
ownershipPuts(ids, data, season) ==
  IF Len(ids) = 0 THEN <<>>
  ELSE IF data[Head(ids)].isNull THEN <<>>
  ELSE << [ key |-> ownershipKey(season, Head(ids)),
            player_id |-> Head(ids),
            owned |-> data[Head(ids)].owned,
            started |-> data[Head(ids)].started ] >>
         \o ownershipPuts(Tail(ids), data, season)

\* the ownership collection once the puts are committed
RECURSIVE putOwnership(_, _)
putOwnership(store, puts) ==
  IF Len(puts) = 0 THEN store
  ELSE putOwnership([k \in DOMAIN store \cup {Head(puts).key} |->
                       IF k = Head(puts).key THEN Head(puts) ELSE store[k]],
                    Tail(puts))

\* the step at which fetchPlayerOwnershipData throws into its catch
ownershipFailure(ans, txOk) ==
  IF ans.kind # "data" THEN ans.kind
  ELSE IF ~txOk THEN "tx"
  ELSE IF \E t \in DOMAIN ans.data : ans.data[t].isNull THEN "entry"
  ELSE "none"

\* the ownership collection after fetchPlayerOwnershipData: a transaction
\* that works commits the puts issued on it, those before a throw in
\* batch.map included; one that fails leaves the collection as it was
ownershipAfterFetch(store, ans, txOk, season) ==
  IF ans.kind = "data" /\ txOk
  THEN LET ids == SortedSeq({id \in Ids : ToText(id) \in DOMAIN ans.data})
           playerIds == [k \in 1..Len(ids) |-> ToText(ids[k])]
       IN putOwnership(store, ownershipPuts(playerIds, ans.data, season))
  ELSE store

fetchPlayerOwnershipData_returnData(ans, txOk) == ans.data

\* what fetchPlayerOwnershipData returns: data, or {} from its catch
fetchPlayerOwnershipData(ans, txOk) ==
  IF ownershipFailure(ans, txOk) = "none" THEN ans.data ELSE EmptyMap

\* the read that keeps the records of every season
getPlayerOwnershipFromDB_anySeason(store, season, readOk) ==
  IF ~readOk THEN EmptyMap
  ELSE [id \in {store[k].player_id : k \in DOMAIN store} |->
          LET k == CHOOSE x \in DOMAIN store : store[x].player_id = id
          IN Stats(FALSE, store[k].owned, store[k].started)]

\* getPlayerOwnershipFromDB(db, season): the records whose key starts with
\* the season, under the rest of the key; {} when db.getAll rejects
getPlayerOwnershipFromDB(store, season, readOk) ==
  IF ~readOk THEN EmptyMap
  ELSE LET prefix == ToText(season) \o << "_" >>
           kept == {k \in DOMAIN store : startsWith(store[k].key, prefix)}
       IN [id \in {removePrefix(store[k].key, prefix) : k \in kept} |->
             LET k == CHOOSE x \in kept : removePrefix(store[x].key, prefix) = id
             IN Stats(FALSE, store[k].owned, store[k].started)]

\* the rosters and users that the league request of refreshData answers
\* with
LeagueResponses ==
  { [ rosters |-> << Roster(1, "u1", <<1>>, <<1, 2>>, 1, 1, 50) >>,
      users |-> << User("u1", "Ann") >> ] }

\* x || 0
OrZero(x) == IF x = Missing THEN 0 ELSE x

\* (fpts || 0) + (fpts_decimal || 0) / 100, counted in hundredths: the
\* difference of two such sums has the sign of the difference of the floats
Points(settings) == 100 * OrZero(settings.fpts) + OrZero(settings.fpts_decimal)

\* the comparison function of the sort: wins descending, then points
\* descending
compare_ascending(a, b) ==
  IF OrZero(b.roster.settings.wins) # OrZero(a.roster.settings.wins)
  THEN OrZero(a.roster.settings.wins) - OrZero(b.roster.settings.wins)
  ELSE Points(a.roster.settings) - Points(b.roster.settings)

compare(a, b) ==
  IF OrZero(b.roster.settings.wins) # OrZero(a.roster.settings.wins)
  THEN OrZero(b.roster.settings.wins) - OrZero(a.roster.settings.wins)
  ELSE Points(b.roster.settings) - Points(a.roster.settings)

\* Array.prototype.sort is stable: an element goes behind the elements that
\* do not compare greater than it
RECURSIVE insertTeam(_, _)
insertTeam(sorted, x) ==
  IF sorted = <<>> THEN <<x>>
  ELSE IF compare(Head(sorted), x) <= 0
       THEN <<Head(sorted)>> \o insertTeam(Tail(sorted), x)
       ELSE <<x>> \o sorted

RECURSIVE sortTeams(_)
sortTeams(ts) ==
  IF ts = <<>> THEN <<>>
  ELSE insertTeam(sortTeams(SubSeq(ts, 1, Len(ts) - 1)), ts[Len(ts)])

\* users.find(u => u.user_id === roster.owner_id) || placeholder
findUser_first(us, owner) ==
  IF us = <<>> THEN [user_id |-> owner, username |-> "Unknown User", display_name |-> "Unknown"]
  ELSE us[1]

findUser(us, owner) ==
  IF \E k \in 1..Len(us) : us[k].user_id = owner
  THEN us[CHOOSE k \in 1..Len(us) :
            /\ us[k].user_id = owner
            /\ \A j \in 1..(k - 1) : us[j].user_id # owner]
  ELSE [user_id |-> owner, username |-> "Unknown User", display_name |-> "Unknown"]

\* ids.map(id => players[id]).filter(p => !!p)
resolve_placeholder(ids, ps) ==
  [k \in 1..Len(ids) |->
     IF ids[k] \in DOMAIN ps THEN ps[ids[k]] ELSE Player(NoId, "", "", Undefined)]

RECURSIVE resolve(_, _)
resolve(ids, ps) ==
  IF ids = <<>> THEN <<>>
  ELSE IF Head(ids) \in DOMAIN ps
       THEN <<ps[Head(ids)]>> \o resolve(Tail(ids), ps)
       ELSE resolve(Tail(ids), ps)


benchOf_all(playersList, starters) == playersList

\* playersList.filter(p => p.player_id && !starterIds.has(p.player_id))
RECURSIVE benchOf(_, _)
benchOf(playersList, starters) ==
  IF playersList = <<>> THEN <<>>
  ELSE IF Truthy(Head(playersList).player_id)
            /\ Head(playersList).player_id \notin {starters[k] : k \in 1..Len(starters)}
       THEN <<Head(playersList)>> \o benchOf(Tail(playersList), starters)
       ELSE benchOf(Tail(playersList), starters)

\* the memo teamsData of rosters, users and players
teamsData(rs, us, ps) ==
  IF Len(rs) = 0 \/ Len(us) = 0 \/ DOMAIN ps = {}
  THEN <<>>
  ELSE sortTeams([k \in 1..Len(rs) |->
                    [ roster |-> rs[k],
                      user |-> findUser(us, rs[k].owner_id),
                      players |-> resolve(rs[k].players, ps),
                      starters |-> resolve(rs[k].starters, ps),
                      bench |-> benchOf(resolve(rs[k].players, ps), rs[k].starters) ]])

\* -------------------------------------------------------------------- Init
\* first page load on an empty database: useState initial values, no
\* operation in flight
Init ==
  /\ players = EmptyMap
  /\ metadata = EmptyMap
  /\ shapeVer = EmptyMap
  /\ now = 0
  /\ codeVersion \in Versions
  /\ loading = TRUE
  /\ error = Null
  /\ statePlayers = EmptyMap
  /\ op = "idle"
  /\ pc = "idle"
  /\ needsRefresh = FALSE
  /\ playersData = EmptyMap
  /\ player = Player(NoId, "", "", Undefined)
  /\ i = 0
  /\ txw = EmptyMap
  /\ putLog = <<>>
  /\ playersMap = EmptyMap
  /\ trace = <<>>
  /\ failedAt = "none"
  /\ readFailed = FALSE
  /\ startPlayers = EmptyMap
  /\ startMeta = EmptyMap
  /\ calls = 0
  /\ metaLost = "no"
  /\ checkAfter = "no"
  /\ startedFresh = FALSE
  /\ checkedFresh = FALSE
  /\ requests = 0
  /\ response = NoResponse
  /\ fetched = EmptyMap
  /\ fetchError = NoError
  /\ result = NoResult
  /\ thrown = NoError
  /\ tabs = [t \in Tabs |->
               [ pc |-> "idle", data |-> EmptyMap, i |-> 0, txw |-> EmptyMap,
                 committed |-> FALSE, waited |-> FALSE ]]
  /\ txQueue = <<>>
  /\ runs = <<>>
  /\ rosters = <<>>
  /\ users = <<>>
  /\ playerOwnership = EmptyMap
  /\ teams = <<>>
  /\ ownership = EmptyMap
  /\ ownershipMap = EmptyMap
  /\ selectedLeagueId = LEAGUES[1].id
  /\ ownError = "none"

\* the values of the variables of an operation when none is in flight
ClearLocals ==
  /\ op' = "idle"
  /\ pc' = "idle"
  /\ needsRefresh' = FALSE
  /\ playersData' = EmptyMap
  /\ player' = Player(NoId, "", "", Undefined)
  /\ i' = 0
  /\ txw' = EmptyMap
  /\ putLog' = <<>>
  /\ playersMap' = EmptyMap
  /\ trace' = <<>>
  /\ failedAt' = "none"
  /\ readFailed' = FALSE
  /\ startPlayers' = EmptyMap
  /\ startMeta' = EmptyMap
  /\ calls' = 0
  /\ checkAfter' = "no"
  /\ startedFresh' = FALSE
  /\ checkedFresh' = FALSE
  /\ requests' = 0
  /\ response' = NoResponse
  /\ fetched' = EmptyMap
  /\ fetchError' = NoError
  /\ result' = NoResult
  /\ thrown' = NoError
  /\ ownershipMap' = EmptyMap
  /\ ownError' = "none"

\* ------------------------------------------------------------- environment
\* the clock moves on
Tick(t) ==
  /\ t > now
  /\ now' = t
  /\ UNCHANGED << storeVars, codeVersion, uiVars, op, pc, needsRefresh,
                  playersData, player, i, txw, putLog, playersMap, trace,
                  failedAt, readFailed, ghostVars,
                  runGhost, fetchVars, tabVars, leagueVars, ownVars >>

\* the page is loaded again, possibly with a later release of the code:
\* the React state starts over, the database stays
Reload(v) ==
  /\ op = "idle"
  /\ (codeVersion = PLAYER_DATA_VERSION => v = PLAYER_DATA_VERSION)
  /\ codeVersion' = v
  /\ loading' = TRUE
  /\ error' = Null
  /\ statePlayers' = EmptyMap
  /\ rosters' = <<>>
  /\ users' = <<>>
  /\ playerOwnership' = EmptyMap
  /\ teams' = teamsData(<<>>, <<>>, EmptyMap)
  /\ selectedLeagueId' = LEAGUES[1].id
  /\ UNCHANGED << storeVars, now, op, pc, needsRefresh, playersData, player,
                  i, txw, putLog, playersMap, trace, failedAt, readFailed,
                  ghostVars, runGhost, fetchVars, tabVars, ownership,
                  ownershipMap, ownError >>

\* --------------------------------------------- how an operation ends a step
\* storePlayers (or the fetch before it) throws at `step`: a direct call ends
\* with the error; in refreshData the catch sets the error and finally
\* resets loading
Throws_clearPlayers(step) ==
  /\ failedAt' = step
  /\ IF op = "refreshData"
     THEN /\ pc' = "end"
          /\ error' = catchError(step)
          /\ loading' = FALSE
          /\ statePlayers' = EmptyMap
     ELSE /\ pc' = IF op = "fetchAndStorePlayers" THEN "catch" ELSE "threw"
          /\ UNCHANGED uiVars

Throws_noFinally(step) ==
  /\ failedAt' = step
  /\ IF op = "refreshData"
     THEN /\ pc' = "end"
          /\ error' = catchError(step)
          /\ UNCHANGED << loading, statePlayers >>
     ELSE /\ pc' = IF op = "fetchAndStorePlayers" THEN "catch" ELSE "threw"
          /\ UNCHANGED uiVars

Throws(step) ==
  /\ failedAt' = step
  /\ IF op = "refreshData"
     THEN /\ pc' = "end"
          /\ error' = catchError(step)
          /\ loading' = FALSE
          /\ UNCHANGED statePlayers
     ELSE /\ pc' = IF op = "fetchAndStorePlayers" THEN "catch" ELSE "threw"
          /\ UNCHANGED uiVars

\* storePlayers entered with argument data
EnterStorePlayers(data) ==
  /\ playersData' = data
  /\ startPlayers' = players
  /\ startMeta' = metadata
  /\ metaLost' = "no"
  /\ i' = 0
  /\ txw' = EmptyMap
  /\ putLog' = <<>>

\* ------------------------------------------------------------ direct calls
\* storePlayers(db, data) called by a client of playerFunctions.ts
StorePlayersCall(f) ==
  /\ op = "idle"
  /\ op' = "storePlayers"
  /\ pc' = "tx"
  /\ EnterStorePlayers(CatalogOf(f))
  /\ calls' = 1
  /\ UNCHANGED << storeVars, now, codeVersion, uiVars, needsRefresh, player,
                  playersMap, trace, failedAt, readFailed, checkAfter,
                  runGhost, fetchVars, tabVars, leagueVars, ownVars >>

\* storePlayers(db, data) called on a database that holds nothing yet
StoreMappingCall(data) ==
  /\ op = "idle"
  /\ DOMAIN players = {}
  /\ DOMAIN metadata = {}
  /\ op' = "storePlayers"
  /\ pc' = "tx"
  /\ EnterStorePlayers(data)
  /\ calls' = 1
  /\ UNCHANGED << storeVars, now, codeVersion, uiVars, needsRefresh, player,
                  playersMap, trace, failedAt, readFailed, checkAfter,
                  runGhost, fetchVars, tabVars, leagueVars, ownVars >>

\* the same call made once more, right after it returned
StorePlayersAgain ==
  /\ op = "storePlayers"
  /\ pc = "returned"
  /\ calls = 1
  /\ pc' = "tx"
  /\ EnterStorePlayers(playersData)
  /\ calls' = 2
  /\ UNCHANGED << storeVars, now, codeVersion, uiVars, op, needsRefresh,
                  player, playersMap, trace, failedAt, readFailed, checkAfter,
                  runGhost, fetchVars, tabVars, leagueVars, ownVars >>

\* tx = db.transaction('players', 'readwrite'); await storePlayer(tx, p);
\* then the caller awaits tx.done
StorePlayerCall(p) ==
  /\ op = "idle"
  /\ op' = "storePlayer"
  /\ player' = p
  /\ putLog' = storePlayer(p)
  /\ txw' = putAll(EmptyMap, storePlayer(p))
  /\ pc' = "ack"
  /\ UNCHANGED << storeVars, now, codeVersion, uiVars, needsRefresh,
                  playersData, i, playersMap, trace, failedAt, readFailed,
                  ghostVars,
                  runGhost, fetchVars, tabVars, leagueVars, ownVars >>

\* the put that storePlayer issued is acknowledged, or fails and aborts tx
StorePlayerAck(ok) ==
  /\ op = "storePlayer"
  /\ pc = "ack"
  /\ (~ok => putLog # <<>>)
  /\ IF ok
     THEN /\ pc' = "commit"
          /\ UNCHANGED << players, failedAt, uiVars >>
     ELSE /\ players' = playersAfterAbort([players |-> players, metadata |-> metadata], txw)
          /\ Throws("put")
  /\ UNCHANGED << metadata, shapeVer, now, codeVersion, op, needsRefresh,
                  playersData, player, i, txw, putLog, playersMap, trace,
                  readFailed, ghostVars,
                  runGhost, fetchVars, tabVars, leagueVars, ownVars >>

\* ------------------------------------------------------------ storePlayers
\* const tx = db.transaction('players', 'readwrite'); it throws when the
\* database is closed
OpenTx(ok) ==
  /\ op \in {"storePlayers", "refreshData", "fetchAndStorePlayers"}
  /\ pc = "tx"
  /\ IF ok
     THEN /\ pc' = IF 0 < Len(ObjectKeys(playersData)) THEN "batch" ELSE "commit"
          /\ UNCHANGED << failedAt, uiVars >>
     ELSE Throws("open")
  /\ UNCHANGED << storeVars, now, codeVersion, op, needsRefresh, playersData,
                  player, i, txw, putLog, playersMap, trace, readFailed,
                  ghostVars,
                  runGhost, fetchVars, tabVars, leagueVars, ownVars >>

\* one turn of the loop: the puts of the batch are issued, then awaited
BatchOk ==
  /\ op \in {"storePlayers", "refreshData", "fetchAndStorePlayers"}
  /\ pc = "batch"
  /\ LET ids == ObjectKeys(playersData)
         puts == batchPuts(playersData, Slice(ids, i))
     IN /\ putLog' = putLog \o puts
        /\ txw' = putAll(txw, puts)
        /\ playersData' = dataAfterBatch(playersData, Slice(ids, i))
        /\ i' = i + BATCH_SIZE
        /\ pc' = IF i + BATCH_SIZE < Len(ids) THEN "batch" ELSE "commit"
  /\ UNCHANGED << storeVars, now, codeVersion, uiVars, op, needsRefresh,
                  player, playersMap, trace, failedAt,
                  readFailed, ghostVars,
                  runGhost, fetchVars, tabVars, leagueVars, ownVars >>

\* a put of the batch fails after k of them were acknowledged: the
\* transaction aborts, Promise.all rejects and storePlayers throws
BatchFails(k) ==
  /\ op \in {"storePlayers", "refreshData", "fetchAndStorePlayers"}
  /\ pc = "batch"
  /\ LET ids == ObjectKeys(playersData)
         puts == batchPuts(playersData, Slice(ids, i))
     IN /\ k < Len(puts)
        /\ putLog' = putLog \o puts
        /\ txw' = putAll(txw, SubSeq(puts, 1, k))
        /\ players' = playersAfterAbort([players |-> players, metadata |-> metadata],
                                        putAll(txw, SubSeq(puts, 1, k)))
        /\ playersData' = dataAfterBatch(playersData, Slice(ids, i))
  /\ Throws("put")
  /\ UNCHANGED << metadata, shapeVer, now, codeVersion, op, needsRefresh,
                  player, i, playersMap, trace, readFailed,
                  ghostVars,
                  runGhost, fetchVars, tabVars, leagueVars, ownVars >>

\* await tx.done
Commit(ok) ==
  /\ op \in {"storePlayers", "refreshData", "fetchAndStorePlayers", "storePlayer"}
  /\ pc = "commit"
  /\ LET db == [players |-> players, metadata |-> metadata] IN
     IF ok
     THEN /\ players' = playersAfterCommit(db, txw)
          /\ shapeVer' = [k \in DOMAIN playersAfterCommit(db, txw) |->
                            IF k \in DOMAIN txw THEN codeVersion ELSE shapeVer[k]]
          /\ pc' = IF op = "storePlayer" THEN "returned" ELSE "meta"
          /\ UNCHANGED << failedAt, uiVars >>
     ELSE /\ players' = playersAfterAbort(db, txw)
          /\ UNCHANGED shapeVer
          /\ Throws("commit")
  /\ UNCHANGED << metadata, now, codeVersion, op, needsRefresh, playersData,
                  player, i, txw, putLog, playersMap, trace, readFailed,
                  ghostVars,
                  runGhost, fetchVars, tabVars, leagueVars, ownVars >>

\* await db.put('metadata', ...), then storePlayers returns
MetaPut(ok) ==
  /\ op \in {"storePlayers", "refreshData", "fetchAndStorePlayers"}
  /\ pc = "meta"
  /\ IF ok
     THEN /\ metadata' = metadataAfterPut(metadata, playersData, now, codeVersion)
          /\ metaLost' = "no"
          /\ pc' = IF op = "refreshData" THEN "read"
                   ELSE IF op = "fetchAndStorePlayers" THEN "stored"
                   ELSE "returned"
          /\ trace' = IF op = "refreshData" THEN Append(trace, "ingested") ELSE trace
          /\ UNCHANGED << failedAt, uiVars >>
     ELSE /\ metaLost' = IF Stale(metadata, now, codeVersion) THEN "stale" ELSE "fresh"
          /\ Throws("meta")
          /\ UNCHANGED << metadata, trace >>
  /\ UNCHANGED << players, shapeVer, now, codeVersion, op, needsRefresh,
                  playersData, player, i, txw, putLog, playersMap, readFailed,
                  startPlayers, startMeta, calls, checkAfter,
                  runGhost, fetchVars, tabVars, leagueVars, ownVars >>

\* ------------------------------------------------------------- refreshData
\* setLoading(true); setError(null); then await initDB()
RefreshStart ==
  /\ op = "idle"
  /\ op' = "refreshData"
  /\ pc' = "initDB"
  /\ loading' = TRUE
  /\ error' = Null
  /\ startedFresh' = ~Stale(metadata, now, codeVersion)
  /\ UNCHANGED << storeVars, now, codeVersion, statePlayers, needsRefresh,
                  playersData, player, i, txw, putLog, playersMap, trace,
                  failedAt, readFailed, ghostVars, checkedFresh, fetchVars,
                  tabVars, leagueVars, ownVars >>

\* openDB resolves or rejects
InitDB(ok) ==
  /\ op = "refreshData"
  /\ pc = "initDB"
  /\ IF ok
     THEN /\ pc' = "check"
          /\ UNCHANGED << failedAt, uiVars >>
     ELSE Throws("initDB")
  /\ UNCHANGED << storeVars, now, codeVersion, op, needsRefresh, playersData,
                  player, i, txw, putLog, playersMap, trace, readFailed,
                  ghostVars,
                  runGhost, fetchVars, tabVars, leagueVars, ownVars >>

\* const needsRefresh = await shouldRefreshPlayers(db)
ShouldRefresh(ok) ==
  /\ op = "refreshData"
  /\ pc = "check"
  /\ needsRefresh' = shouldRefreshPlayers(metadata, ok, now, codeVersion)
  /\ readFailed' = ~ok
  /\ trace' = Append(trace, "check")
  /\ pc' = afterCheck(shouldRefreshPlayers(metadata, ok, now, codeVersion))
  /\ checkAfter' = metaLost
  /\ metaLost' = "no"
  /\ checkedFresh' = (ok /\ ~Stale(metadata, now, codeVersion))
  /\ UNCHANGED << storeVars, now, codeVersion, uiVars, op, playersData,
                  player, i, txw, putLog, playersMap, failedAt, startPlayers,
                  startMeta, calls, startedFresh, fetchVars, tabVars, leagueVars, ownVars >>

\* fetchAndStorePlayers: fetchPlayers resolves with a catalog and
\* storePlayers(db, data) is entered
FetchPlayersOk(f) ==
  /\ op = "refreshData"
  /\ pc = "fetch"
  /\ trace' = Append(trace, "catalog")
  /\ EnterStorePlayers(CatalogOf(f))
  /\ pc' = "tx"
  /\ UNCHANGED << storeVars, now, codeVersion, uiVars, op, needsRefresh,
                  player, playersMap, failedAt, readFailed, calls, checkAfter,
                  runGhost, fetchVars, tabVars, leagueVars, ownVars >>

\* fetchPlayers throws: the request fails, the status is not a success, or
\* the body has no players array
FetchPlayersFails(kind) ==
  /\ op = "refreshData"
  /\ pc = "fetch"
  /\ trace' = Append(trace, "catalog")
  /\ Throws(kind)
  /\ UNCHANGED << storeVars, now, codeVersion, op, needsRefresh, playersData,
                  player, i, txw, putLog, playersMap, readFailed, ghostVars,
                  runGhost, fetchVars, tabVars, leagueVars, ownVars >>

\* the read that is skipped after an ingestion, the fetched mapping
\* standing for its result
GetPlayers_fetched(ok) ==
  /\ op = "refreshData"
  /\ pc = "read"
  /\ trace' = Append(trace, "read")
  /\ playersMap' = IF needsRefresh THEN playersData ELSE getPlayersFromDB(players, ok)
  /\ IF DOMAIN (IF needsRefresh THEN playersData ELSE getPlayersFromDB(players, ok)) = {}
     THEN Throws("read")
     ELSE /\ pc' = "ownRead"
          /\ UNCHANGED << failedAt, uiVars >>
  /\ UNCHANGED << storeVars, now, codeVersion, op, needsRefresh, playersData,
                  player, i, txw, putLog, readFailed, ghostVars,
                  runGhost, fetchVars, tabVars, leagueVars, ownVars >>

\* the read whose empty result is not an error
GetPlayers_noThrow(ok) ==
  /\ op = "refreshData"
  /\ pc = "read"
  /\ trace' = Append(trace, "read")
  /\ playersMap' = getPlayersFromDB(players, ok)
  /\ pc' = "ownRead"
  /\ UNCHANGED << failedAt, uiVars >>
  /\ UNCHANGED << storeVars, now, codeVersion, op, needsRefresh, playersData,
                  player, i, txw, putLog, readFailed, ghostVars,
                  runGhost, fetchVars, tabVars, leagueVars, ownVars >>

\* playersMap = await getPlayersFromDB(db); an empty map throws
GetPlayers(ok) ==
  /\ op = "refreshData"
  /\ pc = "read"
  /\ trace' = Append(trace, "read")
  /\ playersMap' = getPlayersFromDB(players, ok)
  /\ IF DOMAIN getPlayersFromDB(players, ok) = {}
     THEN Throws("read")
     ELSE /\ pc' = "ownRead"
          /\ UNCHANGED << failedAt, uiVars >>
  /\ UNCHANGED << storeVars, now, codeVersion, op, needsRefresh, playersData,
                  player, i, txw, putLog, readFailed, ghostVars,
                  runGhost, fetchVars, tabVars, leagueVars, ownVars >>

\* ownershipMap = await getPlayerOwnershipFromDB(db, currentSeason); the
\* data are requested when the mapping is empty
OwnershipRead(ok) ==
  /\ op = "refreshData"
  /\ pc = "ownRead"
  /\ ownershipMap' = getPlayerOwnershipFromDB(ownership, currentSeason(selectedLeagueId), ok)
  /\ ownError' = IF ok THEN "none" ELSE "read"
  /\ pc' = IF DOMAIN getPlayerOwnershipFromDB(ownership, currentSeason(selectedLeagueId), ok) = {}
           THEN "ownFetch" ELSE "league"
  /\ UNCHANGED << storeVars, now, codeVersion, uiVars, op, needsRefresh,
                  playersData, player, i, txw, putLog, playersMap, trace,
                  failedAt, readFailed, ghostVars, runGhost, fetchVars,
                  tabVars, leagueVars, ownership, selectedLeagueId >>

\* ownershipMap = await fetchPlayerOwnershipData(db, currentSeason): the
\* backend answers with ans, and the ownership transaction works or not
OwnershipFetched(ans, txOk) ==
  /\ op = "refreshData"
  /\ pc = "ownFetch"
  /\ ownership' = ownershipAfterFetch(ownership, ans, txOk, currentSeason(selectedLeagueId))
  /\ ownershipMap' = fetchPlayerOwnershipData(ans, txOk)
  /\ ownError' = ownershipFailure(ans, txOk)
  /\ pc' = "league"
  /\ UNCHANGED << storeVars, now, codeVersion, uiVars, op, needsRefresh,
                  playersData, player, i, txw, putLog, playersMap, trace,
                  failedAt, readFailed, ghostVars, runGhost, fetchVars,
                  tabVars, leagueVars, selectedLeagueId >>

\* setSelectedLeagueId(id): another league is selected
SelectLeague(id) ==
  /\ op = "idle"
  /\ id # selectedLeagueId
  /\ selectedLeagueId' = id
  /\ UNCHANGED << storeVars, now, codeVersion, uiVars, op, pc, needsRefresh,
                  playersData, player, i, txw, putLog, playersMap, trace,
                  failedAt, readFailed, ghostVars, runGhost, fetchVars,
                  tabVars, leagueVars, ownership, ownershipMap, ownError >>

\* the league request succeeds with rosters and users: the states are
\* set, the memo is computed again and finally resets loading
FetchLeagueOk(lg) ==
  /\ op = "refreshData"
  /\ pc = "league"
  /\ trace' = Append(trace, "league")
  /\ rosters' = lg.rosters
  /\ users' = lg.users
  /\ statePlayers' = playersMap
  /\ playerOwnership' = ownershipMap
  /\ teams' = teamsData(lg.rosters, lg.users, playersMap)
  /\ loading' = FALSE
  /\ pc' = "end"
  /\ UNCHANGED << storeVars, now, codeVersion, error, op, needsRefresh,
                  playersData, player, i, txw, putLog, playersMap, failedAt,
                  readFailed, ghostVars,
                  runGhost, fetchVars, tabVars, ownVars >>

\* the league request fails, answers with an error status, or has no
\* rosters or users
FetchLeagueFails(kind) ==
  /\ op = "refreshData"
  /\ pc = "league"
  /\ trace' = Append(trace, "league")
  /\ Throws(kind)
  /\ UNCHANGED << storeVars, now, codeVersion, op, needsRefresh, playersData,
                  player, i, txw, putLog, playersMap, readFailed, ghostVars,
                  runGhost, fetchVars, tabVars, leagueVars, ownVars >>

\* ------------------------------------- fetchPlayers, fetchAndStorePlayers
FetchOps == {"fetchPlayers", "fetchAndStorePlayers"}
FetchSteps == {"network", "status", "json", "format", "entry"}


storeLocals == << playersData, startPlayers, startMeta, metaLost, i, txw, putLog >>

\* fetchPlayers() called by a client of playerFunctions.ts: the request is
\* issued
FetchPlayersCall ==
  /\ op = "idle"
  /\ op' = "fetchPlayers"
  /\ pc' = "response"
  /\ requests' = requests + 1
  /\ UNCHANGED << storeVars, now, codeVersion, uiVars, needsRefresh, player,
                  playersMap, trace, failedAt, readFailed, storeLocals, calls,
                  checkAfter, runGhost, response, fetched, fetchError, result,
                  thrown, tabVars, leagueVars, ownVars >>

\* fetchAndStorePlayers(db) called by a client of playerFunctions.ts: it
\* calls fetchPlayers, which issues the request
FetchAndStoreCall ==
  /\ op = "idle"
  /\ op' = "fetchAndStorePlayers"
  /\ pc' = "response"
  /\ requests' = requests + 1
  /\ startPlayers' = players
  /\ startMeta' = metadata
  /\ UNCHANGED << storeVars, now, codeVersion, uiVars, needsRefresh, player,
                  playersMap, trace, failedAt, readFailed, playersData,
                  metaLost, i, txw, putLog, calls, checkAfter, runGhost,
                  response, fetched, fetchError, result, thrown, tabVars, leagueVars, ownVars >>

\* fetchPlayers resolves or rejects with `outcome`, having received `resp`;
\* `kind` names the step that failed.  A direct call ends there; in
\* fetchAndStorePlayers the locals of fetchPlayers are gone and the store
\* stage or the catch follows
FetchStageEnds(outcome, kind, resp) ==
  /\ failedAt' = IF outcome.ok THEN failedAt ELSE kind
  /\ fetchError' = outcome.error
  /\ response' = IF op = "fetchPlayers" THEN resp ELSE NoResponse
  /\ IF op = "fetchPlayers"
     THEN /\ pc' = IF outcome.ok THEN "returned" ELSE "threw"
          /\ result' = IF outcome.ok THEN Returned(outcome.value) ELSE result
          /\ thrown' = outcome.error
          /\ UNCHANGED << fetched, storeLocals >>
     ELSE /\ pc' = fetchStageNext(outcome)
          /\ fetched' = outcome.value
          /\ IF fetchStageNext(outcome) = "tx"
             THEN EnterStorePlayers(outcome.value)
             ELSE UNCHANGED storeLocals
          /\ UNCHANGED << result, thrown >>

\* await fetch(url) rejects: no connection
RequestFails ==
  /\ op \in FetchOps
  /\ pc = "response"
  /\ FetchStageEnds(Fail(<<"Network error">>), "network", response)
  /\ UNCHANGED << storeVars, now, codeVersion, uiVars, op, needsRefresh,
                  player, playersMap, trace, readFailed, calls, checkAfter,
                  runGhost, requests, tabVars, leagueVars, ownVars >>

\* await fetch(url) resolves with r; a status that is no success throws
ResponseArrives(r) ==
  /\ op \in FetchOps
  /\ pc = "response"
  /\ IF checkResponse(r).ok
     THEN /\ pc' = "json"
          /\ response' = r
          /\ UNCHANGED << failedAt, fetchError, result, thrown, fetched,
                          storeLocals >>
     ELSE FetchStageEnds(checkResponse(r), "status", r)
  /\ UNCHANGED << storeVars, now, codeVersion, uiVars, op, needsRefresh,
                  player, playersMap, trace, readFailed, calls, checkAfter,
                  runGhost, requests, tabVars, leagueVars, ownVars >>

\* await response.json() rejects: the body is no JSON text
JsonFails ==
  /\ op \in FetchOps
  /\ pc = "json"
  /\ FetchStageEnds(Fail(SyntaxError), "json", response)
  /\ UNCHANGED << storeVars, now, codeVersion, uiVars, op, needsRefresh,
                  player, playersMap, trace, readFailed, calls, checkAfter,
                  runGhost, requests, tabVars, leagueVars, ownVars >>

\* await response.json() resolves with `body`: the shape is checked and the
\* entries are converted
JsonResolves(body) ==
  /\ op \in FetchOps
  /\ pc = "json"
  /\ FetchStageEnds(parseBody(body), (IF invalidFormat(body) THEN "format" ELSE "entry"),
                    [response EXCEPT !.parsed = TRUE, !.body = body])
  /\ UNCHANGED << storeVars, now, codeVersion, uiVars, op, needsRefresh,
                  player, playersMap, trace, readFailed, calls, checkAfter,
                  runGhost, requests, tabVars, leagueVars, ownVars >>

\* fetchAndStorePlayers: the catch rethrows the error of the stage that
\* failed
FetchAndStoreCatch ==
  /\ op = "fetchAndStorePlayers"
  /\ pc = "catch"
  /\ thrown' = rethrow(IF failedAt \in FetchSteps THEN fetchError
                       ELSE StoreError(failedAt))
  /\ pc' = "threw"
  /\ UNCHANGED << storeVars, now, codeVersion, uiVars, op, needsRefresh,
                  player, playersMap, trace, failedAt, readFailed,
                  storeLocals, calls, checkAfter, runGhost, requests,
                  response, fetched, fetchError, result, tabVars, leagueVars, ownVars >>

\* fetchAndStorePlayers: storePlayers returned; return playersData
FetchAndStoreReturn ==
  /\ op = "fetchAndStorePlayers"
  /\ pc = "stored"
  /\ result' = Returned(fetched)
  /\ pc' = "returned"
  /\ UNCHANGED << storeVars, now, codeVersion, uiVars, op, needsRefresh,
                  player, playersMap, trace, failedAt, readFailed,
                  storeLocals, calls, checkAfter, runGhost, requests,
                  response, fetched, fetchError, thrown, tabVars, leagueVars, ownVars >>

\* the operation in flight is over
Finish ==
  /\ pc \in {"end", "returned", "threw"}
  /\ ClearLocals
  /\ UNCHANGED << storeVars, now, codeVersion, uiVars, metaLost, tabVars,
                  leagueVars, ownership, selectedLeagueId >>

FailKinds == {"network", "status", "format"}

\* ------------------------------------------------------------- two tabs
\* The dashboard is open in two tabs on the same database.  Each tab runs
\* the ingestion part of refreshData once: freshness check, catalog
\* request, storePlayers.  IndexedDB starts a readwrite transaction on the
\* players collection only when every such transaction created before it
\* has finished; the requests placed on a transaction that has not started
\* wait, so a tab gets past a batch that issues puts only when its
\* transaction is the first of the queue
soloVars == << runs, uiVars, op, pc, needsRefresh, playersData, player, i, txw,
               putLog, playersMap, trace, failedAt, readFailed, ghostVars,
               runGhost, fetchVars, leagueVars, ownVars >>

TabPuts(t) == batchPuts(tabs[t].data, Slice(ObjectKeys(tabs[t].data), tabs[t].i))

Running(t) == txQueue # <<>> /\ Head(txQueue) = t

\* const needsRefresh = await shouldRefreshPlayers(db)
TabCheck(t, ok) ==
  /\ tabs[t].pc = "idle"
  /\ tabs' = [tabs EXCEPT ![t].pc =
                IF shouldRefreshPlayers(metadata, ok, now, codeVersion)
                THEN "fetch" ELSE "done"]
  /\ UNCHANGED << storeVars, now, codeVersion, soloVars, txQueue >>

\* fetchPlayers resolves with a catalog and storePlayers is entered
TabFetch(t, f) ==
  /\ tabs[t].pc = "fetch"
  /\ tabs' = [tabs EXCEPT ![t].pc = "tx", ![t].data = CatalogOf(f)]
  /\ UNCHANGED << storeVars, now, codeVersion, soloVars, txQueue >>

\* const tx = db.transaction('players', 'readwrite')
TabOpenTx(t) ==
  /\ tabs[t].pc = "tx"
  /\ txQueue' = Append(txQueue, t)
  /\ tabs' = [tabs EXCEPT
                ![t].pc = IF 0 < Len(ObjectKeys(tabs[t].data)) THEN "batch" ELSE "commit",
                ![t].waited = (txQueue # <<>>)]
  /\ UNCHANGED << storeVars, now, codeVersion, soloVars >>

\* one turn of the loop of storePlayers
TabBatch(t) ==
  /\ tabs[t].pc = "batch"
  /\ (TabPuts(t) = <<>> \/ Running(t))
  /\ tabs' = [tabs EXCEPT
                ![t].txw = putAll(tabs[t].txw, TabPuts(t)),
                ![t].i = tabs[t].i + BATCH_SIZE,
                ![t].pc = IF tabs[t].i + BATCH_SIZE < Len(ObjectKeys(tabs[t].data))
                          THEN "batch" ELSE "commit"]
  /\ UNCHANGED << storeVars, now, codeVersion, soloVars, txQueue >>

\* await tx.done: the transaction of the tab commits, or aborts and
\* storePlayers throws
TabCommit(t, ok) ==
  /\ tabs[t].pc = "commit"
  /\ Running(t)
  /\ txQueue' = Tail(txQueue)
  /\ LET db == [players |-> players, metadata |-> metadata] IN
     IF ok
     THEN /\ players' = playersAfterCommit(db, tabs[t].txw)
          /\ shapeVer' = [k \in DOMAIN playersAfterCommit(db, tabs[t].txw) |->
                            IF k \in DOMAIN tabs[t].txw THEN codeVersion ELSE shapeVer[k]]
          /\ tabs' = [tabs EXCEPT ![t].pc = "meta", ![t].committed = TRUE]
     ELSE /\ players' = playersAfterAbort(db, tabs[t].txw)
          /\ UNCHANGED shapeVer
          /\ tabs' = [tabs EXCEPT ![t].pc = "done"]
  /\ UNCHANGED << metadata, now, codeVersion, soloVars >>

\* await db.put('metadata', ...)
TabMeta(t, ok) ==
  /\ tabs[t].pc = "meta"
  /\ metadata' = IF ok THEN metadataAfterPut(metadata, tabs[t].data, now, codeVersion)
                 ELSE metadata
  /\ tabs' = [tabs EXCEPT ![t].pc = "done"]
  /\ UNCHANGED << players, shapeVer, now, codeVersion, soloVars, txQueue >>

NextTabs ==
  \/ \E t \in Tabs, ok \in BOOLEAN : TabCheck(t, ok)
  \/ \E t \in Tabs, f \in Catalogs : TabFetch(t, f)
  \/ \E t \in Tabs : TabOpenTx(t)
  \/ \E t \in Tabs : TabBatch(t)
  \/ \E t \in Tabs, ok \in BOOLEAN : TabCommit(t, ok)
  \/ \E t \in Tabs, ok \in BOOLEAN : TabMeta(t, ok)

SpecTabs == Init /\ [][NextTabs]_vars

\* ------------------------------------------------------------- the view
\* the first league data of a page load reach the states (setRosters,
\* setUsers, setPlayers), and the memo is computed again
LeagueLoaded ==
  /\ op = "idle"
  /\ Len(rosters) = 0 /\ Len(users) = 0 /\ DOMAIN statePlayers = {}
  /\ \E lg \in LeagueInputs(MaxRosters) :
       /\ rosters' = lg.rosters
       /\ users' = lg.users
       /\ statePlayers' = lg.players
       /\ teams' = teamsData(lg.rosters, lg.users, lg.players)
  /\ UNCHANGED << storeVars, now, codeVersion, loading, error, op, pc,
                  needsRefresh, playersData, player, i, txw, putLog,
                  playersMap, trace, failedAt, readFailed, ghostVars,
                  runGhost, fetchVars, tabVars, playerOwnership, ownVars >>

NextTeams ==
  \/ LeagueLoaded
  \/ \E v \in Versions : Reload(v)

SpecTeams == Init /\ [][NextTeams]_vars

\* the dashboard: refreshData runs, page loads, the clock
Next ==
  \/ \E t \in Instants : Tick(t)
  \/ \E v \in Versions : Reload(v)
  \/ RefreshStart
  \/ \E ok \in BOOLEAN : InitDB(ok)
  \/ \E ok \in BOOLEAN : ShouldRefresh(ok)
  \/ \E f \in FetchedCatalogs : FetchPlayersOk(f)
  \/ \E kind \in FailKinds : FetchPlayersFails(kind)
  \/ \E ok \in BOOLEAN : OpenTx(ok)
  \/ BatchOk
  \/ \E k \in 0..(BATCH_SIZE - 1) : BatchFails(k)
  \/ \E ok \in BOOLEAN : Commit(ok)
  \/ \E ok \in BOOLEAN : MetaPut(ok)
  \/ \E ok \in BOOLEAN : GetPlayers(ok)
  \/ \E ok \in BOOLEAN : OwnershipRead(ok)
  \/ OwnershipFetched([kind |-> "data",
                       data |-> [t \in {ToText(1)} |-> Stats(FALSE, 10, 5)]], TRUE)
  \/ \E lg \in LeagueResponses : FetchLeagueOk(lg)
  \/ \E kind \in FailKinds : FetchLeagueFails(kind)
  \/ Finish

Spec == Init /\ [][Next]_vars

\* the dashboard with both leagues, a catalog of one player, and every
\* answer of the research request
NextOwnership ==
  \/ \E k \in DOMAIN LEAGUES : SelectLeague(LEAGUES[k].id)
  \/ RefreshStart
  \/ InitDB(TRUE)
  \/ ShouldRefresh(TRUE)
  \/ FetchPlayersOk([id \in {1} |-> <<"Active", "QB", H74>>])
  \/ OpenTx(TRUE)
  \/ BatchOk
  \/ Commit(TRUE)
  \/ MetaPut(TRUE)
  \/ GetPlayers(TRUE)
  \/ \E ok \in BOOLEAN : OwnershipRead(ok)
  \/ \E ans \in OwnershipAnswers, txOk \in BOOLEAN : OwnershipFetched(ans, txOk)
  \/ \E lg \in LeagueResponses : FetchLeagueOk(lg)
  \/ Finish

SpecOwnership == Init /\ [][NextOwnership]_vars

\* ---------------------------------------------------- one run that settles
\* the steps of a refreshData run after its start: each is an awaited
\* store or network operation that resolves or rejects
Settle ==
  \/ \E ok \in BOOLEAN : InitDB(ok)
  \/ \E ok \in BOOLEAN : ShouldRefresh(ok)
  \/ \E f \in {f \in FetchedCatalogs : DOMAIN f \subseteq {1}} : FetchPlayersOk(f)
  \/ \E kind \in FailKinds : FetchPlayersFails(kind)
  \/ \E ok \in BOOLEAN : OpenTx(ok)
  \/ BatchOk
  \/ \E k \in 0..(BATCH_SIZE - 1) : BatchFails(k)
  \/ \E ok \in BOOLEAN : Commit(ok)
  \/ \E ok \in BOOLEAN : MetaPut(ok)
  \/ \E ok \in BOOLEAN : GetPlayers(ok)
  \/ \E ok \in BOOLEAN : OwnershipRead(ok)
  \/ \E ans \in OwnershipAnswers, txOk \in BOOLEAN : OwnershipFetched(ans, txOk)
  \/ \E lg \in LeagueResponses : FetchLeagueOk(lg)
  \/ \E kind \in FailKinds : FetchLeagueFails(kind)

NextSettle == RefreshStart \/ Settle \/ Finish

\* every awaited operation of a run in flight eventually settles
SpecSettle == Init /\ [][NextSettle]_vars /\ WF_vars(Settle)

\* ------------------------------------------------ overlapping refreshData
\* refreshData has no cancellation: a run started by the mount, by a change
\* of league (the effect on [refreshData]) or by a call of refreshData from
\* the context stays in flight until its finally block, whatever runs start
\* meanwhile.  A run holds the league id that its closure captured and the
\* maps it read.  The database part of a run is one step here: the
\* interleavings of database parts are those of the two tabs.
inFlightFrame == << now, codeVersion, op, pc, needsRefresh, playersData, player,
                    i, txw, putLog, playersMap, trace, failedAt, readFailed,
                    ghostVars, runGhost, fetchVars, tabs, txQueue,
                    ownershipMap, ownError >>

\* the rosters and users that the backend answers with for a league
LeagueData(id) ==
  IF id = LEAGUES[1].id
  THEN [ rosters |-> << Roster(1, "u1", <<1>>, <<1, 2>>, 1, 1, 50) >>,
         users |-> << User("u1", "Ann") >> ]
  ELSE [ rosters |-> << Roster(1, "u2", <<2>>, <<2>>, 0, Missing, Missing) >>,
         users |-> << User("u2", "Bob") >> ]

\* refreshData(): setLoading(true); setError(null); the run is in flight
RunStart ==
  /\ Len(runs) < MaxRuns
  /\ runs' = Append(runs, [league |-> selectedLeagueId, pc |-> "store",
                           playersMap |-> EmptyMap, ownershipMap |-> EmptyMap])
  /\ loading' = TRUE
  /\ error' = Null
  /\ UNCHANGED << storeVars, statePlayers, leagueVars, ownership,
                  selectedLeagueId, inFlightFrame >>

\* setSelectedLeagueId(id) and the effect that the new refreshData
\* triggers: a run for league id starts next to those in flight
LeagueChange(id) ==
  /\ Len(runs) < MaxRuns
  /\ id # selectedLeagueId
  /\ selectedLeagueId' = id
  /\ runs' = Append(runs, [league |-> id, pc |-> "store",
                           playersMap |-> EmptyMap, ownershipMap |-> EmptyMap])
  /\ loading' = TRUE
  /\ error' = Null
  /\ UNCHANGED << storeVars, statePlayers, leagueVars, ownership, inFlightFrame >>

\* the database part of run r works: freshness check, ingestion of the
\* catalog when it is called for, read of the players, read of the
\* ownership of the season of the run and request when there is none
RunStore(r) ==
  /\ runs[r].pc = "store"
  /\ LET needs == shouldRefreshPlayers(metadata, TRUE, now, codeVersion)
         catalog == CatalogOf([id \in Ids |-> <<"Active", "QB", H74>>])
         w == putAll(EmptyMap, batchPuts(catalog, ObjectKeys(catalog)))
         stored == IF needs
                   THEN playersAfterCommit([players |-> players, metadata |-> metadata], w)
                   ELSE players
         season == currentSeason(runs[r].league)
         read == getPlayerOwnershipFromDB(ownership, season, TRUE)
         ans == [kind |-> "data", data |-> [t \in {ToText(1)} |-> Stats(FALSE, 10, 5)]]
     IN /\ DOMAIN getPlayersFromDB(stored, TRUE) # {}
        /\ players' = stored
        /\ shapeVer' = [k \in DOMAIN stored |->
                          IF needs /\ k \in DOMAIN w THEN codeVersion ELSE shapeVer[k]]
        /\ metadata' = IF needs
                       THEN metadataAfterPut(metadata, catalog, now, codeVersion)
                       ELSE metadata
        /\ ownership' = IF DOMAIN read = {}
                        THEN ownershipAfterFetch(ownership, ans, TRUE, season)
                        ELSE ownership
        /\ runs' = [runs EXCEPT ![r].pc = "league",
                                ![r].playersMap = getPlayersFromDB(stored, TRUE),
                                ![r].ownershipMap =
                                   IF DOMAIN read = {}
                                   THEN fetchPlayerOwnershipData(ans, TRUE)
                                   ELSE read]
  /\ UNCHANGED << uiVars, leagueVars, selectedLeagueId, inFlightFrame >>

\* the league request of run r is answered: setRosters, setUsers,
\* setPlayers, setPlayerOwnership, and finally setLoading(false)
RunLeagueOk(r) ==
  /\ runs[r].pc = "league"
  /\ rosters' = LeagueData(runs[r].league).rosters
  /\ users' = LeagueData(runs[r].league).users
  /\ statePlayers' = runs[r].playersMap
  /\ playerOwnership' = runs[r].ownershipMap
  /\ teams' = teamsData(LeagueData(runs[r].league).rosters,
                        LeagueData(runs[r].league).users, runs[r].playersMap)
  /\ loading' = FALSE
  /\ runs' = [k \in 1..(Len(runs) - 1) |-> IF k < r THEN runs[k] ELSE runs[k + 1]]
  /\ UNCHANGED << storeVars, error, ownership, selectedLeagueId, inFlightFrame >>

\* a step of run r throws: catch sets the error, finally resets loading
RunThrows(r) ==
  /\ error' = catchError("run")
  /\ loading' = FALSE
  /\ runs' = [k \in 1..(Len(runs) - 1) |-> IF k < r THEN runs[k] ELSE runs[k + 1]]
  /\ UNCHANGED << storeVars, statePlayers, leagueVars, ownership,
                  selectedLeagueId, inFlightFrame >>

NextRuns ==
  \/ RunStart
  \/ \E k \in DOMAIN LEAGUES : LeagueChange(LEAGUES[k].id)
  \/ \E r \in DOMAIN runs : RunStore(r)
  \/ \E r \in DOMAIN runs : RunLeagueOk(r)
  \/ \E r \in DOMAIN runs : RunThrows(r)

SpecRuns == Init /\ [][NextRuns]_vars

\* a client of playerFunctions.ts that calls storePlayers on the database
NextStore ==
  \/ \E t \in Instants : Tick(t)
  \/ \E f \in Catalogs : StorePlayersCall(f)
  \/ StorePlayersAgain
  \/ \E ok \in BOOLEAN : OpenTx(ok)
  \/ BatchOk
  \/ \E k \in 0..(BATCH_SIZE - 1) : BatchFails(k)
  \/ \E ok \in BOOLEAN : Commit(ok)
  \/ \E ok \in BOOLEAN : MetaPut(ok)
  \/ Finish

SpecStore == Init /\ [][NextStore]_vars

\* a client of playerFunctions.ts that hands storePlayers a mapping of its
\* own, in which the player_id of a record need not be the key under
\* which the record is listed
NextCopy ==
  \/ \E data \in UNION { [S -> { Player(pid, sh[1], sh[2], sh[3]) :
                                    pid \in {NoId} \cup Ids,
                                    sh \in { <<"Active", "QB", H74>>,
                                             <<"Active", "QB", H62>>,
                                             <<"Inactive", "WR", H74>> } }] :
                          S \in SUBSET Ids } :
       StoreMappingCall(data)
  \/ \E ok \in BOOLEAN : OpenTx(ok)
  \/ BatchOk
  \/ \E k \in 0..(BATCH_SIZE - 1) : BatchFails(k)
  \/ \E ok \in BOOLEAN : Commit(ok)
  \/ \E ok \in BOOLEAN : MetaPut(ok)
  \/ Finish

SpecCopy == Init /\ [][NextCopy]_vars

\* a client of playerFunctions.ts that calls fetchPlayers and
\* fetchAndStorePlayers
NextFetch ==
  \/ \E t \in Instants : Tick(t)
  \/ FetchPlayersCall
  \/ FetchAndStoreCall
  \/ RequestFails
  \/ \E r \in Responses : ResponseArrives(r)
  \/ JsonFails
  \/ \E body \in Bodies : JsonResolves(body)
  \/ \E ok \in BOOLEAN : OpenTx(ok)
  \/ BatchOk
  \/ \E k \in 0..(BATCH_SIZE - 1) : BatchFails(k)
  \/ \E ok \in BOOLEAN : Commit(ok)
  \/ \E ok \in BOOLEAN : MetaPut(ok)
  \/ FetchAndStoreCatch
  \/ FetchAndStoreReturn
  \/ Finish

SpecFetch == Init /\ [][NextFetch]_vars

\* a client that calls fetchPlayers, the backend answering with one entry
NextNames ==
  \/ FetchPlayersCall
  \/ ResponseArrives(Response(TRUE, "200", "OK"))
  \/ \E body \in NameBodies : JsonResolves(body)
  \/ Finish

SpecNames == Init /\ [][NextNames]_vars

\* a client that calls storePlayer on a transaction of its own
NextStorePlayer ==
  \/ \E p \in TestPlayers : StorePlayerCall(p)
  \/ \E ok \in BOOLEAN : StorePlayerAck(ok)
  \/ \E ok \in BOOLEAN : Commit(ok)
  \/ Finish

SpecStorePlayer == Init /\ [][NextStorePlayer]_vars

\* ------------------------------------------------------------------ claims
IsPrefix(a, b) == Len(a) <= Len(b) /\ a = SubSeq(b, 1, Len(a))

\* C1: whatever storePlayers runs took place on the database, with whatever
\* catalogs and failures, every record of the players collection has status
\* "Active" and a position among QB, RB, WR, TE, K.
C1_StoredPlayersActiveRelevant ==
  \A k \in DOMAIN players :
    /\ players[k].status = "Active"
    /\ players[k].position \in {"QB", "RB", "WR", "TE", "K"}

\* a run returned that was given an inactive player, or a DEF player, with
\* an eligible one: it stored the eligible one and left the other out
C1_Witness ==
  /\ op = "storePlayers"
  /\ pc = "returned"
  /\ \E a, b \in DOMAIN playersData :
       /\ playersData[a].status = "Inactive" \/ playersData[a].position = "DEF"
       /\ a \notin DOMAIN players
       /\ b \in DOMAIN players
       /\ b \in DOMAIN txw

\* C2: storePlayer issues one put when player_id is non-empty, status is
\* "Active" and position is among QB, RB, WR, TE, K (DEF is not); otherwise
\* it issues none and the call does not fail; never more than one put.
C2_StorePlayerOnePutOrNone ==
  op = "storePlayer" =>
    LET eligible == /\ player.player_id # NoId
                    /\ player.status = "Active"
                    /\ player.position \in {"QB", "RB", "WR", "TE", "K"}
    IN /\ Len(putLog) = (IF eligible THEN 1 ELSE 0)
       /\ (~eligible => /\ failedAt # "put"
                        /\ DOMAIN txw = {})
       /\ (eligible => DOMAIN txw = {player.player_id})

\* storePlayer was given an active DEF player with an id and wrote nothing
C2_Witness ==
  /\ op = "storePlayer"
  /\ pc = "returned"
  /\ player.player_id # NoId
  /\ player.status = "Active"
  /\ player.position = "DEF"
  /\ putLog = <<>>
  /\ failedAt = "none"

\* C3: when a put or the commit of the players transaction fails,
\* storePlayers throws, the players collection is what it was when the call
\* was made, and the metadata record is not written.
C3_FailedTransactionLeavesNoWrite ==
  (op = "storePlayers" /\ failedAt \in {"put", "commit"}) =>
    /\ pc = "threw"
    /\ players = startPlayers
    /\ metadata = startMeta

\* a put failed after an earlier batch had been acknowledged with a write
\* that would have changed the collection
C3_Witness ==
  /\ op = "storePlayers"
  /\ failedAt = "put"
  /\ \E k \in DOMAIN txw : k \notin DOMAIN players
  /\ Len(putLog) > Cardinality(DOMAIN txw)

\* C4: when storePlayers returns, the empty mapping included, the metadata
\* collection holds the record "lastUpdate" with the running version and
\* with the time at which the call wrote it.
C4_MetadataStampedOnReturn ==
  /\ [](op = "storePlayers" /\ pc = "returned" =>
          /\ DOMAIN metadata = {"lastUpdate"}
          /\ metadata["lastUpdate"].version = codeVersion
          /\ metadata["lastUpdate"].lastUpdated <= now)
  /\ [][(op = "storePlayers" /\ pc = "meta" /\ pc' = "returned") =>
          /\ metadata'["lastUpdate"].key = "lastUpdate"
          /\ metadata'["lastUpdate"].lastUpdated = now]_vars

\* storePlayers returned from a call with the empty mapping, made when the
\* clock had moved on, and the record carries that time
C4_Witness ==
  /\ op = "storePlayers"
  /\ pc = "returned"
  /\ DOMAIN playersData = {}
  /\ now > 0
  /\ DOMAIN metadata = {"lastUpdate"}
  /\ metadata["lastUpdate"].lastUpdated = now

\* C5: shouldRefresh returns true when the metadata record is absent, true
\* when at least 24 hours have elapsed since lastUpdated (24 hours exactly
\* included), true when the stored version is not the running one, and false
\* in every other case.
C5_ShouldRefreshCases ==
  [][(op = "refreshData" /\ pc = "check" /\ pc' # "check" /\ ~readFailed') =>
       needsRefresh' =
         IF DOMAIN metadata = {} THEN TRUE
         ELSE IF now - metadata["lastUpdate"].lastUpdated >= 24 * 60 * 60 * 1000 THEN TRUE
         ELSE IF metadata["lastUpdate"].version # codeVersion THEN TRUE
         ELSE FALSE]_vars

\* the check has just read a record of the running version that is exactly
\* 24 hours old, and asked for a refresh
C5_Witness ==
  /\ op = "refreshData"
  /\ pc = "fetch"
  /\ ~readFailed
  /\ needsRefresh
  /\ DOMAIN metadata # {}
  /\ metadata["lastUpdate"].version = codeVersion
  /\ now - metadata["lastUpdate"].lastUpdated = 24 * 60 * 60 * 1000

\* C6 as stated: once storePlayers has committed its players transaction and
\* lost its metadata write, the next shouldRefresh returns true, whatever
\* metadata record the store held before that run.
C6_Original ==
  checkAfter # "no" => needsRefresh

\* C6 as amended: the lost metadata write leaves the metadata collection as
\* it was before the run, and the next shouldRefresh returns true when that
\* earlier record was absent, of another version or at least 24 hours old.
C6_LostStampKeepsStaleCacheStale ==
  /\ failedAt = "meta" => metadata = startMeta /\ DOMAIN txw \subseteq DOMAIN players
  /\ checkAfter = "stale" => needsRefresh

\* after a run that lost its metadata write over a record that was already
\* 24 hours old, the next check read that record and asked for a refresh
C6_Witness ==
  /\ checkAfter = "stale"
  /\ ~readFailed
  /\ needsRefresh
  /\ DOMAIN metadata # {}
  /\ metadata["lastUpdate"].version = codeVersion

\* C7: when the stored metadata version is not the running version,
\* refreshData runs the ingestion before it reads the players collection,
\* and the players it then serves contain no record written under the old
\* version.
C7_NoOldVersionRecordServed ==
  (/\ op = "refreshData"
   /\ pc = "end"
   /\ failedAt = "none"
   /\ ~readFailed
   /\ DOMAIN startMeta # {}
   /\ startMeta["lastUpdate"].version # codeVersion) =>
    /\ IsPrefix(<<"check", "catalog", "ingested", "read">>, trace)
    /\ \A id \in DOMAIN statePlayers : shapeVer[id] = codeVersion

\* C8: storePlayers called twice in a row with the same mapping leaves the
\* same player records, with the same field values, and the same metadata
\* version as the first call left.
C8_StoreTwiceSameAsOnce ==
  (op = "storePlayers" /\ pc = "returned" /\ calls = 2) =>
    /\ players = startPlayers
    /\ DOMAIN metadata = DOMAIN startMeta
    /\ metadata["lastUpdate"].version = startMeta["lastUpdate"].version

\* the second call returned; the mapping has an eligible player and the
\* collection also holds a record that the mapping does not write
C8_Witness ==
  /\ op = "storePlayers"
  /\ pc = "returned"
  /\ calls = 2
  /\ DOMAIN txw # {}
  /\ DOMAIN players \ DOMAIN txw # {}

\* C9: a failure of the metadata read inside shouldRefresh makes it return
\* true: the run goes on to the catalog request instead of ending with the
\* error of the read.
C9_ReadFailureMeansRefresh ==
  readFailed =>
    /\ needsRefresh
    /\ pc = "fetch" \/ IsPrefix(<<"check", "catalog">>, trace)

\* the read failed over a fresh record of the running version and the run
\* stands before the catalog request
C9_Witness ==
  /\ readFailed
  /\ pc = "fetch"
  /\ needsRefresh
  /\ ~Stale(metadata, now, codeVersion)

\* the order of the accesses of one refreshData run: the freshness check, the
\* catalog request and the ingestion if and only if the check returned true,
\* the read of the players collection, the league request
OrderOfRun ==
  /\ IsPrefix(trace, IF needsRefresh
                     THEN <<"check", "catalog", "ingested", "read", "league">>
                     ELSE <<"check", "read", "league">>)
  /\ (needsRefresh /\ pc # "fetch") => Len(trace) >= 2

\* C10 as stated: the order above, and a run that starts less than 24 hours
\* after a successful ingestion under the same version issues no catalog
\* request.
C10_Original ==
  /\ OrderOfRun
  /\ startedFresh => ~(\E n \in 1..Len(trace) : trace[n] = "catalog")

\* C10 as amended: the order above, and a run whose freshness check reads a
\* metadata record of the running version less than 24 hours old issues no
\* catalog request.
C10_OrderAndNoRequestWhenFresh ==
  /\ OrderOfRun
  /\ checkedFresh =>
       /\ ~needsRefresh
       /\ ~(\E n \in 1..Len(trace) : trace[n] = "catalog")

\* a run ended well without a catalog request: check, read, league request
C10_Witness ==
  /\ op = "refreshData"
  /\ pc = "end"
  /\ failedAt = "none"
  /\ checkedFresh
  /\ trace = <<"check", "read", "league">>

\* ------------------------------------------------------------ C11 .. C20
\* the players array of the body that the direct fetchPlayers call read
BodyIsArray == response.parsed /\ ~response.body.isNull /\ IsArray(response.body.players)
Items == response.body.players.items

\* C11: when the fetch stage of fetchAndStorePlayers fails (no connection,
\* a status that is no success, a body of the wrong shape), the players
\* collection and the metadata are exactly what they were when the call
\* was made
C11_FetchFailureLeavesStoreUnchanged ==
  (op = "fetchAndStorePlayers" /\ failedAt \in FetchSteps)
    => (players = startPlayers /\ metadata = startMeta)

C11_Witness ==
  /\ op = "fetchAndStorePlayers"
  /\ pc = "threw"
  /\ failedAt = "format"
  /\ thrown = FormatError
  /\ DOMAIN players # {}
  /\ DOMAIN metadata # {}

\* C12: a fetchPlayers call issues exactly one request; when the response
\* has a status that is no success, the call fails with an error that
\* carries the status code and the reason phrase, and no second request
\* is made
C12_OneRequestAndStatusError ==
  op = "fetchPlayers" =>
    /\ requests = 1
    /\ (response # NoResponse /\ ~response.ok) =>
         /\ pc = "threw"
         /\ thrown = << "Failed to fetch players: ", response.status, " ",
                        response.statusText >>
         /\ ~result.returned

C12_Witness ==
  /\ op = "fetchPlayers"
  /\ pc = "threw"
  /\ requests = 1
  /\ response.status = "404"
  /\ response.statusText = "Not Found"

\* C13: when the body of a successful response has no players field, or
\* the field is no array, fetchPlayers fails with the invalid-format error
\* and returns no mapping
C13_BadShapeIsFormatError ==
  (op = "fetchPlayers" /\ response.parsed /\ ~BodyIsArray)
    => (pc = "threw" /\ thrown = FormatError /\ ~result.returned)

C13_Witness ==
  /\ op = "fetchPlayers"
  /\ pc = "threw"
  /\ response.parsed
  /\ response.body.players.type = "object"
  /\ thrown = FormatError

\* the identifiers of the entries that carry an identifier and a name
ValidIds(items) ==
  { items[k].sleeper_player_id :
      k \in { j \in 1..Len(items) :
                /\ ~items[j].isNull
                /\ Truthy(items[j].sleeper_player_id)
                /\ TruthyStr(items[j].playerName) } }

\* C14: for every array of raw entries fetchPlayers returns, and the
\* mapping holds exactly the entries that have an identifier and a name;
\* no entry makes the call fail
C14_InvalidEntriesNeverFailTheCall ==
  (op = "fetchPlayers" /\ BodyIsArray)
    => (pc = "returned" /\ DOMAIN result.value = ValidIds(Items))

\* an entry carries an identifier / a name under one of the two field names
HasId(e) == Truthy(e.sleeper_player_id) \/ Truthy(e.sleeper_id)
HasName(e) == TruthyStr(e.playerName) \/ TruthyStr(e.Player_Name)
IdOf(e) == IF Truthy(e.sleeper_player_id) THEN e.sleeper_player_id ELSE e.sleeper_id

\* C15: fetchPlayers returns a record, keyed by the identifier, for every
\* entry that has an identifier under sleeper_player_id or sleeper_id and a
\* name under playerName or 'Player Name' (arrays without a null element)
C15_BothNamingSchemesAccepted ==
  (op = "fetchPlayers" /\ BodyIsArray /\ \A k \in 1..Len(Items) : ~Items[k].isNull)
    => /\ pc = "returned"
       /\ \A k \in 1..Len(Items) :
            (HasId(Items[k]) /\ HasName(Items[k]))
              => IdOf(Items[k]) \in DOMAIN result.value

\* C17: fetchAndStorePlayers enters the store stage only once fetchPlayers
\* has returned, and with the mapping it returned; when a stage fails the
\* call fails with the error of that stage; when both succeed the call
\* returns the mapping of fetchPlayers
C17_FetchThenStoreSameErrorSameMapping ==
  op = "fetchAndStorePlayers" =>
    /\ pc \in {"tx", "batch", "commit", "meta", "stored"}
         => (failedAt = "none" /\ fetchError = NoError /\ playersData = fetched)
    /\ pc = "threw"
         => thrown = IF failedAt \in FetchSteps THEN fetchError
                     ELSE StoreError(failedAt)
    /\ pc = "returned"
         => (failedAt = "none" /\ result = Returned(fetched))

C17_Witness ==
  /\ op = "fetchAndStorePlayers"
  /\ pc = "returned"
  /\ \E id \in DOMAIN result.value : id \notin DOMAIN players
  /\ \E id \in DOMAIN result.value : id \in DOMAIN players

\* C16: storePlayer stores every eligible player whatever its height
\* string; the stored record keeps a height of the form <digits>'<digits>"
\* as it is, and has no height when the string is of another form
C16_HeightKeptOrCleared ==
  ( /\ op = "storePlayer"
    /\ pc = "returned"
    /\ player.height # Undefined
    /\ Truthy(player.player_id)
    /\ player.status = "Active"
    /\ player.position \in RELEVANT_POSITIONS )
    => /\ player.player_id \in DOMAIN players
       /\ players[player.player_id].height =
            IF isValidHeight(player.height) THEN player.height ELSE Undefined

\* C18 as stated: a refreshData run in which a step failed, the freshness
\* check included, ends with the generic message as its error; the error
\* is null or the generic message in every state
C18_Original ==
  /\ error \in {Null, ErrorMessage}
  /\ (op = "refreshData" /\ pc = "end" /\ (failedAt # "none" \/ readFailed))
       => error = ErrorMessage

\* C18: the error is null or the generic message in every state; a
\* refreshData run ends with the generic message exactly when one of its
\* steps threw into the catch (store open, ingestion, empty players
\* collection, league request or response), and with null otherwise, a
\* failed read of the freshness check included
C18_CaughtFailureSetsGenericMessage ==
  /\ error \in {Null, ErrorMessage}
  /\ (op = "refreshData" /\ pc = "end")
       => (error = ErrorMessage <=> failedAt # "none")

C18_Witness ==
  /\ op = "refreshData"
  /\ pc = "end"
  /\ failedAt = "status"
  /\ trace = <<"check", "read", "league">>
  /\ error = ErrorMessage
  /\ loading = FALSE

\* C20: no step of a storePlayers run removes a record from the players
\* collection, and the only records a step adds or changes are those of
\* ids that are in the input of the run with status Active and a
\* relevant position
C20_NoRecordDeleted ==
  [][ /\ DOMAIN players \subseteq DOMAIN players'
      /\ \A id \in DOMAIN players' :
           (id \notin DOMAIN players \/ players'[id] # players[id])
             => /\ id \in DOMAIN playersData
                /\ playersData[id].status = "Active"
                /\ playersData[id].position \in RELEVANT_POSITIONS ]_vars

C20_Witness ==
  /\ op = "storePlayers"
  /\ pc = "returned"
  /\ \E id \in DOMAIN startPlayers :
       /\ id \in DOMAIN players
       /\ players[id] = startPlayers[id]
       /\ (id \notin DOMAIN playersData \/ playersData[id].status # "Active")
  /\ \E id \in DOMAIN txw : id \notin DOMAIN startPlayers

\* the players collection that one refresh of catalog `data` leaves on an
\* empty database
SingleRefresh(data) == putAll(EmptyMap, batchPuts(data, ObjectKeys(data)))

\* C19: with two tabs refreshing the same database, in every interleaving
\* every stored player is Active with a relevant position and is the
\* record that one of the tabs that committed made of its catalog; once
\* both tabs have committed the same catalog, the players collection is the
\* one that a single refresh of that catalog leaves
C19_RacingRefreshes ==
  /\ \A id \in DOMAIN players :
       /\ players[id].status = "Active"
       /\ players[id].position \in RELEVANT_POSITIONS
       /\ \E t \in Tabs :
            /\ tabs[t].committed
            /\ id \in DOMAIN SingleRefresh(tabs[t].data)
            /\ players[id] = SingleRefresh(tabs[t].data)[id]
  /\ ( /\ \A t \in Tabs : tabs[t].committed
       /\ \A t, u \in Tabs : tabs[t].data = tabs[u].data )
       => \A t \in Tabs : players = SingleRefresh(tabs[t].data)

\* both tabs held a transaction at the same time, both committed, their
\* catalogs differ and each has left a record that the other has not
C19_Witness ==
  /\ \A t \in Tabs : tabs[t].committed /\ tabs[t].pc = "done"
  /\ \E t \in Tabs : tabs[t].waited
  /\ \E id \in DOMAIN players :
       /\ id \in DOMAIN SingleRefresh(tabs["A"].data)
       /\ id \notin DOMAIN SingleRefresh(tabs["B"].data)
  /\ \E id \in DOMAIN players :
       /\ id \in DOMAIN SingleRefresh(tabs["B"].data)
       /\ id \notin DOMAIN SingleRefresh(tabs["A"].data)

\* ------------------------------------------------------------ C21 .. C30
\* wins and points of an entry of teamsData, a missing value being 0
WinsOf(t) == IF t.roster.settings.wins = Missing THEN 0 ELSE t.roster.settings.wins
PointsOf(t) ==
  100 * (IF t.roster.settings.fpts = Missing THEN 0 ELSE t.roster.settings.fpts)
    + (IF t.roster.settings.fpts_decimal = Missing THEN 0
       ELSE t.roster.settings.fpts_decimal)
PlaceOf(t) == CHOOSE k \in 1..Len(rosters) : rosters[k].roster_id = t.roster.roster_id

\* C21: of two entries of teamsData the earlier one has more wins, or as
\* many wins and more points, or as many of both and the earlier place in
\* rosters; a missing value counts as 0
C21_TeamsSorted ==
  \A a, b \in 1..Len(teams) :
    a < b =>
      \/ WinsOf(teams[a]) > WinsOf(teams[b])
      \/ /\ WinsOf(teams[a]) = WinsOf(teams[b])
         /\ PointsOf(teams[a]) > PointsOf(teams[b])
      \/ /\ WinsOf(teams[a]) = WinsOf(teams[b])
         /\ PointsOf(teams[a]) = PointsOf(teams[b])
         /\ PlaceOf(teams[a]) < PlaceOf(teams[b])

\* the third roster comes first; the first and the second tie on both
\* keys, one of them without a wins value, and keep their order
C21_Witness ==
  /\ Len(teams) = 3
  /\ teams[1].roster.roster_id = 3
  /\ teams[2].roster.roster_id = 1
  /\ teams[3].roster.roster_id = 2
  /\ teams[2].roster.settings.wins = Missing
  /\ teams[3].roster.settings.wins = 0
  /\ PointsOf(teams[2]) = PointsOf(teams[3])
  /\ WinsOf(teams[1]) = 0
  /\ PointsOf(teams[1]) = 150

IdsOf(q) == {q[k].player_id : k \in 1..Len(q)}

\* C22: the bench of an entry is the list of its players whose id is not
\* in the starter ids of the roster, in the order of the list; no id is
\* both in starters and in bench
C22_BenchIsRosterMinusStarters ==
  \A k \in 1..Len(teams) :
    LET t == teams[k]
        starterIds == {t.roster.starters[j] : j \in 1..Len(t.roster.starters)}
    IN /\ t.bench = SelectSeq(t.players, LAMBDA p : p.player_id \notin starterIds)
       /\ IdsOf(t.bench) \cap IdsOf(t.starters) = {}
       /\ \A j \in 1..Len(t.players) :
            t.players[j] \in {t.bench[m] : m \in 1..Len(t.bench)}
              \/ t.players[j].player_id \in starterIds

C22_Witness ==
  \E k \in 1..Len(teams) :
    /\ teams[k].roster.players = <<2, 1>>
    /\ teams[k].roster.starters = <<1, 3>>
    /\ Len(teams[k].starters) = 1
    /\ Len(teams[k].bench) = 1
    /\ teams[k].bench[1].player_id = 2

\* the cached players of a list of ids, in the order of the list
Cached(ids) ==
  LET kept == SelectSeq(ids, LAMBDA id : id \in DOMAIN statePlayers)
  IN [k \in 1..Len(kept) |-> statePlayers[kept[k]]]

\* C23: starters and players of an entry are the cached players of the id
\* lists of the roster, in list order; an id without cached player leaves
\* no entry
C23_UnmatchedIdsDropped ==
  \A k \in 1..Len(teams) :
    /\ teams[k].starters = Cached(teams[k].roster.starters)
    /\ teams[k].players = Cached(teams[k].roster.players)

C23_Witness ==
  \E k \in 1..Len(teams) :
    /\ teams[k].roster.starters = <<3, 1>>
    /\ teams[k].roster.players = <<1, 3>>
    /\ Len(teams[k].starters) = 1
    /\ Len(teams[k].players) = 1
    /\ DOMAIN statePlayers = Ids

\* C24: with rosters, users and players all non-empty teamsData has one
\* entry for each roster; its user is the first user with the owner id of
\* the roster, or the placeholder named Unknown when there is none
C24_OneEntryPerRoster ==
  (Len(rosters) > 0 /\ Len(users) > 0 /\ DOMAIN statePlayers # {})
    => /\ Len(teams) = Len(rosters)
       /\ \A k \in 1..Len(rosters) :
            \E j \in 1..Len(teams) :
              /\ teams[j].roster = rosters[k]
              /\ \A m \in 1..Len(teams) : teams[m].roster = rosters[k] => m = j
              /\ IF \E u \in 1..Len(users) : users[u].user_id = rosters[k].owner_id
                 THEN /\ teams[j].user.user_id = rosters[k].owner_id
                      /\ teams[j].user \in {users[u] : u \in 1..Len(users)}
                 ELSE /\ teams[j].user.display_name = "Unknown"
                      /\ teams[j].user.user_id = rosters[k].owner_id

C24_Witness ==
  /\ Len(teams) = 2
  /\ teams[1].roster.owner_id = "u9"
  /\ teams[1].user.display_name = "Unknown"
  /\ teams[2].user.display_name = "Ann"
  /\ Len(teams[2].players) = 2

\* C25: first_name is playerName up to its first space and has no space;
\* last_name is what follows that space, and is empty when playerName has
\* no space
C25_NameSplitAtFirstSpace ==
  (op = "fetchPlayers" /\ pc = "returned" /\ response.parsed)
    => \A k \in 1..Len(response.body.players.items) :
         LET e == response.body.players.items[k]
             r == result.value[e.sleeper_player_id]
         IN (e.sleeper_player_id \in DOMAIN result.value)
              => /\ r.playerName = e.playerName
                 /\ \A j \in 1..Len(r.first_name) : r.first_name[j] # " "
                 /\ IF \E j \in 1..Len(e.playerName) : e.playerName[j] = " "
                    THEN e.playerName = r.first_name \o << " " >> \o r.last_name
                    ELSE e.playerName = r.first_name /\ r.last_name = <<>>

C25_Witness ==
  /\ op = "fetchPlayers" /\ pc = "returned"
  /\ 1 \in DOMAIN result.value
  /\ result.value[1].playerName = << "A", "B", " ", "B", " ", "A" >>
  /\ result.value[1].first_name = << "A", "B" >>
  /\ result.value[1].last_name = << "B", " ", "A" >>

\* C26: a step of storePlayers leaves the ownership collection as it is; a
\* step of the ownership read or fetch leaves the players and metadata
\* collections, the players read and the error as they are and goes on
\* with the run, with an empty mapping when it failed; and the run then
\* serves the players it has read
C26_IngestionAndOwnershipDecoupled ==
  [][ /\ (pc \in {"tx", "batch", "commit", "meta"} => ownership' = ownership)
      /\ (pc \in {"ownRead", "ownFetch"}
            => /\ players' = players
               /\ metadata' = metadata
               /\ playersMap' = playersMap
               /\ error' = error
               /\ failedAt' = failedAt
               /\ pc' \in {"ownFetch", "league"}
               /\ (ownError' # "none" => ownershipMap' = EmptyMap))
      /\ ((pc = "league" /\ pc' = "end" /\ failedAt' = "none")
            => statePlayers' = playersMap /\ error' = Null)
    ]_vars

\* a run ends well after its ownership fetch failed in the middle of its
\* puts
C26_Witness ==
  /\ op = "refreshData"
  /\ pc = "end"
  /\ ownError = "entry"
  /\ DOMAIN ownership # {}
  /\ playerOwnership = EmptyMap
  /\ error = Null
  /\ DOMAIN statePlayers # {}

\* C27 as stated: the records of the season read after a fetch that
\* stored D are exactly D
C27_Original ==
  [][ (pc = "ownFetch" /\ ownError' = "none")
        => getPlayerOwnershipFromDB(ownership', currentSeason(selectedLeagueId), TRUE)
             = ownershipMap'
    ]_vars

\* C27: after a fetch that stored D for season s, the read of season s
\* returns D and, under the ids that D lacks, the records of season s
\* that were there before; the read of another season returns what it
\* returned before
C27_SeasonKeyedUpsert ==
  [][ (pc = "ownFetch" /\ ownError' = "none")
        => LET s == currentSeason(selectedLeagueId)
               before == getPlayerOwnershipFromDB(ownership, s, TRUE)
               after == getPlayerOwnershipFromDB(ownership', s, TRUE)
               D == ownershipMap'
           IN /\ DOMAIN after = DOMAIN before \cup DOMAIN D
              /\ \A id \in DOMAIN after :
                   after[id] = IF id \in DOMAIN D THEN D[id] ELSE before[id]
              /\ \A t \in {LEAGUES[k].season : k \in DOMAIN LEAGUES} \ {s} :
                   getPlayerOwnershipFromDB(ownership', t, TRUE)
                     = getPlayerOwnershipFromDB(ownership, t, TRUE)
    ]_vars

\* the fetch of season 2025 has stored the shares of player 1 over the
\* records of players 1 and 2, next to a record of season 2024
C27_Witness ==
  /\ pc = "league"
  /\ ownError = "none"
  /\ currentSeason(selectedLeagueId) = 2025
  /\ DOMAIN ownershipMap = {ToText(1)}
  /\ ownershipMap[ToText(1)] = Stats(FALSE, 20, 10)
  /\ DOMAIN getPlayerOwnershipFromDB(ownership, 2025, TRUE) = {ToText(1), ToText(2)}
  /\ DOMAIN getPlayerOwnershipFromDB(ownership, 2024, TRUE) = {ToText(1)}
  /\ getPlayerOwnershipFromDB(ownership, 2024, TRUE)[ToText(1)] = Stats(FALSE, 10, 5)

InStorePlayers == op \in {"storePlayers", "refreshData", "fetchAndStorePlayers"}

\* the ids of a list whose store operation issues a put
Putting(data, ids) ==
  SelectSeq(ids, LAMBDA id : Len(storePlayer([data[id] EXCEPT !.player_id = id])) > 0)

Orders(S) ==
  { q \in [1..Cardinality(S) -> S] : \A a, b \in 1..Cardinality(S) : q[a] = q[b] => a = b }

\* the puts of the ids written one after the other in the given order
RECURSIVE WriteInOrder(_, _, _)
WriteInOrder(w, data, order) ==
  IF Len(order) = 0 THEN w
  ELSE LET puts == storePlayer([data[Head(order)] EXCEPT !.player_id = Head(order)])
       IN WriteInOrder(IF Len(puts) = 0 THEN w ELSE put(w, puts[1]), data, Tail(order))

\* the same in batches of n ids: each batch is written on what the
\* batches before it have written
RECURSIVE WriteInBatches(_, _, _, _)
WriteInBatches(w, data, order, n) ==
  IF Len(order) = 0 THEN w
  ELSE LET m == IF n < Len(order) THEN n ELSE Len(order)
       IN WriteInBatches(WriteInOrder(w, data, SubSeq(order, 1, m)), data,
                         SubSeq(order, m + 1, Len(order)), n)

LastEntry(items, id) ==
  items[CHOOSE k \in 1..Len(items) :
          /\ ~items[k].isNull /\ items[k].sleeper_player_id = id
          /\ TruthyStr(items[k].playerName)
          /\ \A m \in (k + 1)..Len(items) :
               ~(~items[m].isNull /\ items[m].sleeper_player_id = id
                   /\ TruthyStr(items[m].playerName))]

\* C30: a record that fetchPlayers returns has the status of its raw
\* entry, or Active when the entry has none; once fetchAndStorePlayers has
\* committed, a fetched record that is Active and of a relevant position
\* is in the players collection, and the id of another fetched record has
\* what it had before the call
C30_MissingStatusIsActiveAndPersisted ==
  /\ (op = "fetchPlayers" /\ pc = "returned" /\ response.parsed)
       => \A id \in DOMAIN result.value :
            LET e == LastEntry(response.body.players.items, id)
            IN result.value[id].status = IF e.status = "" THEN "Active" ELSE e.status
  /\ (op = "fetchAndStorePlayers" /\ pc \in {"meta", "stored", "returned"})
       => \A id \in DOMAIN fetched :
            IF fetched[id].status = "Active" /\ fetched[id].position \in RELEVANT_POSITIONS
            THEN /\ id \in DOMAIN players
                 /\ players[id].status = "Active"
                 /\ players[id].position = fetched[id].position
            ELSE /\ fetched[id].status # ""
                 /\ (id \in DOMAIN players <=> id \in DOMAIN startPlayers)
                 /\ (id \in DOMAIN players => players[id] = startPlayers[id])

\* of two fetched entries the one without status is stored and the
\* Inactive one is not
C30_Witness ==
  /\ op = "fetchAndStorePlayers"
  /\ pc = "returned"
  /\ DOMAIN fetched = {1, 2}
  /\ fetched[1].status = "Inactive"
  /\ fetched[2].status = "Active"
  /\ DOMAIN players = {2}


\* ------------------------------------------------------------ C31 .. C39
\* the puts that the run has issued are all in the players collection
PutsVisible ==
  \A k \in 1..Len(putLog) :
    /\ putLog[k].player_id \in DOMAIN players
    /\ players[putLog[k].player_id] = putLog[k]

\* C31: storePlayers writes the metadata stamp only after the players
\* transaction has committed: the only step that changes the metadata is
\* the one taken after the commit, and in the state in which it is taken
\* every player record that the run put is already in the players
\* collection, which the step leaves as it is
C31_StampAfterCommit ==
  [][ /\ metadata' # metadata => pc = "meta"
      /\ pc = "meta" => (PutsVisible /\ players' = players) ]_vars

\* a storePlayers run returned with its stamp written over the players it
\* added to the collection
C31_Witness ==
  /\ op = "storePlayers"
  /\ pc = "returned"
  /\ metadata # startMeta
  /\ putLog # <<>>
  /\ players # startPlayers
  /\ PutsVisible


\* record rec is a copy of the record that mapping data lists under the
\* player_id of rec: same status and position, the height kept or cleared
CopyOfListed(rec, data) ==
  /\ rec.player_id \in DOMAIN data
  /\ rec.status = data[rec.player_id].status
  /\ rec.position = data[rec.player_id].position
  /\ rec.height \in {data[rec.player_id].height, Undefined}

\* C32: no step of a storePlayers run changes the mapping the run was
\* given, so every input record keeps its height and its player_id; every
\* record the run puts is a copy of an input record whose player_id is the
\* key under which that record is listed; every listed record that is
\* Active with a relevant position is put under its key, and the commit
\* stores each copy under that key
C32_InputUntouchedCopyStored ==
  [][ (op = "storePlayers" /\ pc \in {"tx", "batch", "commit", "meta"}) =>
        /\ playersData' = playersData
        /\ \A k \in 1..Len(putLog') : CopyOfListed(putLog'[k], playersData)
        /\ \A id \in DOMAIN txw' :
             txw'[id].player_id = id /\ CopyOfListed(txw'[id], playersData)
        /\ pc' = "commit" =>
             \A id \in DOMAIN playersData :
               (playersData[id].status = "Active"
                  /\ playersData[id].position \in RELEVANT_POSITIONS)
                 => id \in DOMAIN txw'
        /\ pc' = "meta" =>
             \A id \in DOMAIN txw : id \in DOMAIN players' /\ players'[id] = txw[id]
    ]_vars

\* a run returned: a record listed under a key that is not its player_id,
\* with a height that is not valid, is stored under the key with the
\* height cleared, and the input record still has both
C32_Witness ==
  /\ op = "storePlayers"
  /\ pc = "returned"
  /\ \E id \in DOMAIN playersData :
       /\ playersData[id].player_id # id
       /\ playersData[id].height = H74
       /\ id \in DOMAIN players
       /\ players[id].player_id = id
       /\ players[id].height = Undefined


\* the run in progress has asked for the catalog
CatalogRequested == \E n \in 1..Len(trace) : trace[n] = "catalog"

\* C33 as stated: when refreshData checks the freshness while the metadata
\* record is of the running version and less than 24 hours old and the
\* players collection is empty, it issues no catalog request.
C33_Original ==
  [][ (/\ op = "refreshData"
       /\ pc = "check"
       /\ ~Stale(metadata, now, codeVersion)
       /\ DOMAIN players = {}) => pc' # "fetch" ]_vars

\* C33 as amended: a run whose freshness check has read a metadata record
\* of the running version less than 24 hours old while the players
\* collection is empty goes from the check to the read and from the read
\* to its end, with the error set, loading reset and the exposed players
\* as they were; it issues no catalog request and leaves the players
\* collection and the metadata as they are, so that every later run whose
\* check reads that record before the threshold does the same.
C33_FreshButEmptyFailsWithoutRequest ==
  [][ (/\ op = "refreshData"
       /\ pc \notin {"initDB", "check"}
       /\ checkedFresh
       /\ DOMAIN players = {}) =>
        /\ pc \in {"read", "end"}
        /\ players' = players
        /\ metadata' = metadata
        /\ ~CatalogRequested
        /\ (pc = "read" /\ pc' # "read") =>
             /\ pc' = "end"
             /\ failedAt' = "read"
             /\ error' = ErrorMessage
             /\ loading' = FALSE
             /\ statePlayers' = statePlayers
             /\ trace' = <<"check", "read">>
    ]_vars

\* a run ended that way some time after the stamp was written on an empty
\* players collection
C33_Witness ==
  /\ op = "refreshData"
  /\ pc = "end"
  /\ checkedFresh
  /\ DOMAIN players = {}
  /\ DOMAIN metadata # {}
  /\ now > metadata["lastUpdate"].lastUpdated
  /\ error = ErrorMessage
  /\ trace = <<"check", "read">>


\* C34: once no refreshData run is in flight, the last run having ended
\* without error, the rosters and users exposed are those fetched for the
\* selected league, whatever the order in which the runs ended
C34_ExposedLeagueIsSelected ==
  (runs = <<>> /\ error = Null /\ ~loading) =>
    /\ rosters = LeagueData(selectedLeagueId).rosters
    /\ users = LeagueData(selectedLeagueId).users

\* C35: the loading flag is true whenever a refreshData run is in flight
C35_LoadingWhileInFlight ==
  runs # <<>> => loading


\* C36: every refreshData run whose awaited operations settle reaches its
\* end with loading reset, whether it succeeds or a step of it throws; the
\* step that ends a run without error sets rosters, users, players and
\* playerOwnership together, to the answer of the league request and to
\* the maps the run read, and leaves the error null
C36_RunEndsWithLoadingReset ==
  /\ [][ (op = "refreshData" /\ pc # "end" /\ pc' = "end") =>
           /\ loading' = FALSE
           /\ failedAt' = "none" =>
                /\ error' = Null
                /\ \E lg \in LeagueResponses : rosters' = lg.rosters /\ users' = lg.users
                /\ statePlayers' = playersMap
                /\ DOMAIN statePlayers' # {}
                /\ playerOwnership' = ownershipMap
           /\ failedAt' # "none" => error' = ErrorMessage ]_vars
  /\ (op = "refreshData") ~> (op = "refreshData" /\ pc = "end" /\ ~loading)

\* a run ended without error although its ownership read or request failed
C36_Witness ==
  /\ op = "refreshData"
  /\ pc = "end"
  /\ failedAt = "none"
  /\ ~loading
  /\ error = Null
  /\ rosters # <<>>
  /\ statePlayers = playersMap
  /\ ownError # "none"


\* C37: the start of a refreshData run and every step of it but the one
\* that ends it without error leave rosters, users, players and
\* playerOwnership (and with them teamsData and the selected league) as
\* they are; the step on which a run fails changes only the error, which
\* it sets, and loading, which it resets
C37_FailedRunKeepsView ==
  [][ ( \/ (op = "idle" /\ op' = "refreshData")
        \/ (/\ op = "refreshData"
            /\ pc # "end"
            /\ ~(pc' = "end" /\ failedAt' = "none")) ) =>
        /\ UNCHANGED << rosters, users, statePlayers, playerOwnership, teams,
                        selectedLeagueId >>
        /\ (op = "refreshData" /\ pc' = "end") =>
             (error' = ErrorMessage /\ loading' = FALSE)
    ]_vars

\* a run failed while the view of an earlier run was displayed: the view
\* is still there, with the error
C37_Witness ==
  /\ op = "refreshData"
  /\ pc = "end"
  /\ failedAt # "none"
  /\ error = ErrorMessage
  /\ ~loading
  /\ rosters # <<>>
  /\ users # <<>>
  /\ DOMAIN statePlayers # {}
  /\ teams # <<>>


\* the step on which a refreshData run ends without error
EndsWell == op = "refreshData" /\ pc = "league" /\ pc' = "end" /\ failedAt' = "none"

\* C38: the exposed players change only when the page is loaded again and
\* when a run ends without error; such a run exposes the mapping it read
\* from the players collection after its freshness step, which is what
\* the collection holds, is not empty and lists only players that are
\* Active with a relevant position, whatever the fetch returned
C38_ExposedPlayersAreTheStoredOnes ==
  [][ /\ statePlayers' # statePlayers =>
           (EndsWell \/ (op = "idle" /\ statePlayers' = EmptyMap))
      /\ EndsWell =>
           /\ statePlayers' = playersMap
           /\ playersMap = getPlayersFromDB(players, TRUE)
           /\ DOMAIN statePlayers' # {}
           /\ \E n \in 2..Len(trace) : trace[n] = "read" /\ trace[1] = "check"
           /\ \A id \in DOMAIN statePlayers' :
                /\ statePlayers'[id].status = "Active"
                /\ statePlayers'[id].position \in RELEVANT_POSITIONS
    ]_vars

\* a run that ingested a catalog with a player that is not Active ended
\* well: the exposed mapping is the stored one, not the fetched one
C38_Witness ==
  /\ op = "refreshData"
  /\ pc = "end"
  /\ failedAt = "none"
  /\ \E n \in 1..Len(trace) : trace[n] = "catalog"
  /\ \E id \in DOMAIN playersData : playersData[id].status # "Active"
  /\ DOMAIN statePlayers # DOMAIN playersData
  /\ statePlayers = getPlayersFromDB(players, TRUE)
  /\ DOMAIN statePlayers # {}


\* the ownership collection holds a record of the season
HasSeason(store, season) ==
  \E k \in DOMAIN store : startsWith(store[k].key, ToText(season) \o << "_" >>)

\* C39 as stated: refreshData issues the ownership request of a season
\* only when the ownership collection holds no record of that season.
C39_Original ==
  [][ (op = "refreshData" /\ pc = "ownRead" /\ pc' = "ownFetch")
        => ~HasSeason(ownership, currentSeason(selectedLeagueId)) ]_vars

\* C39 as amended: the run goes from the ownership read to the ownership
\* request exactly when the collection holds no record of the season of
\* the selected league or the read of the collection failed, and to the
\* league request otherwise, with the records of the season as its
\* ownership map; neither the clock nor the player metadata has a part in
\* it.
C39_RequestOnlyWhenNothingRead ==
  [][ (op = "refreshData" /\ pc = "ownRead" /\ pc' # "ownRead") =>
        LET season == currentSeason(selectedLeagueId) IN
        /\ pc' \in {"ownFetch", "league"}
        /\ (pc' = "ownFetch") <=>
             (~HasSeason(ownership, season) \/ ownError' = "read")
        /\ pc' = "league" =>
             /\ ownershipMap' = getPlayerOwnershipFromDB(ownership, season, TRUE)
             /\ ownership' = ownership
    ]_vars

\* a later run, its metadata fresh, is at the league request with the
\* ownership of the season as the collection holds it, next to a record of
\* the other season
C39_Witness ==
  /\ op = "refreshData"
  /\ pc = "league"
  /\ trace = <<"check", "read">>
  /\ ownError = "none"
  /\ HasSeason(ownership, currentSeason(selectedLeagueId))
  /\ \E k \in DOMAIN LEAGUES :
       /\ LEAGUES[k].season # currentSeason(selectedLeagueId)
       /\ HasSeason(ownership, LEAGUES[k].season)
  /\ DOMAIN ownershipMap # {}
  /\ ownershipMap = getPlayerOwnershipFromDB(ownership, currentSeason(selectedLeagueId), TRUE)

====
